---- MODULE Spec2Model ----
(***************************************************************************)
(* A model of the job-search assistant: URL-pattern generation             *)
(* (config.py), the model client (llm_manager.py, llm_module.py), the two  *)
(* career-page locators (search_engine.find_career_page and                *)
(* agent.JobSearchAgent.search_jobs with web_scraper.WebScraper), and the  *)
(* listing extractor with its keyword filter (job_extractor.py).           *)
(*                                                                         *)
(* Text is a sequence of one-character strings, so that lower(), replace(),*)
(* startswith(), split(), strip() and the `in` substring test are computed *)
(* as Python computes them.                                                *)
(***************************************************************************)
EXTENDS Integers, Sequences, FiniteSets, TLC

(***************************************************************************)
(* Python values                                                           *)
(***************************************************************************)
\* Python's None: a sequence, as every text is, that is no text (its one item
\* is not a character)
None == <<"None">>

\* `not x` for x a text or None
Falsy(x) == x = None \/ x = <<>>

(***************************************************************************)
(* Text helpers: Python's str methods                                      *)
(***************************************************************************)
UpperCase == <<"A", "B", "C", "D", "E", "F", "G", "H", "I", "J", "K", "L", "M",
               "N", "O", "P", "Q", "R", "S", "T", "U", "V", "W", "X", "Y", "Z">>

LowerCase == <<"a", "b", "c", "d", "e", "f", "g", "h", "i", "j", "k", "l", "m",
               "n", "o", "p", "q", "r", "s", "t", "u", "v", "w", "x", "y", "z">>

\* The lower-case letter of each upper-case letter
LowerOf ==
    [c \in {UpperCase[i] : i \in 1..Len(UpperCase)} |->
        LowerCase[CHOOSE i \in 1..Len(UpperCase) : UpperCase[i] = c]]

\* str.lower()
Lower(s) == [i \in 1..Len(s) |-> IF s[i] \in DOMAIN LowerOf THEN LowerOf[s[i]] ELSE s[i]]

\* s.replace(c, ""): every occurrence of the character c removed
RemoveChar(s, c) == SelectSeq(s, LAMBDA x : x # c)

\* s[i-1:j] of Python: the items from the i-th to the j-th that s has
Slice(s, i, j) ==
    SubSeq(s, IF i < 1 THEN 1 ELSE i, IF j > Len(s) THEN Len(s) ELSE j)

\* s.startswith(p)
StartsWith(s, p) == Len(s) >= Len(p) /\ SubSeq(s, 1, Len(p)) = p

\* `sub in s`: sub is a substring of s (the empty text is a substring of every text)
Contains(s, sub) ==
    \E i \in 0..(Len(s) - Len(sub)) : SubSeq(s, i + 1, i + Len(sub)) = sub

\* s.find(sub, i - 1), counted from 1; 0 when sub does not occur (Python's -1)
RECURSIVE FindFrom(_, _, _)
FindFrom(s, sub, i) ==
    IF i + Len(sub) - 1 > Len(s) THEN 0
    ELSE IF SubSeq(s, i, i + Len(sub) - 1) = sub THEN i
    ELSE FindFrom(s, sub, i + 1)

\* s.rfind(c, 0, i) for a character c, counted from 1; 0 when c does not occur
RECURSIVE RFindFrom(_, _, _)
RFindFrom(s, c, i) ==
    IF i < 1 THEN 0 ELSE IF s[i] = c THEN i ELSE RFindFrom(s, c, i - 1)

\* The characters str.strip() removes
Whitespace == {" ", "\n", "\t"}

\* The first index from i on, and the last index up to i, of a character
\* that is no white space (Len(s) + 1 and 0 if there is none)
RECURSIVE FirstInk(_, _)
FirstInk(s, i) ==
    IF i > Len(s) THEN i ELSE IF s[i] \notin Whitespace THEN i ELSE FirstInk(s, i + 1)

RECURSIVE LastInk(_, _)
LastInk(s, i) ==
    IF i < 1 THEN 0 ELSE IF s[i] \notin Whitespace THEN i ELSE LastInk(s, i - 1)

\* s.strip()
Strip(s) == SubSeq(s, FirstInk(s, 1), LastInk(s, Len(s)))

\* s.split(c) for a character c
RECURSIVE Split(_, _)
Split(s, c) ==
    LET i == FindFrom(s, <<c>>, 1)
    IN  IF i = 0 THEN <<s>>
        ELSE <<SubSeq(s, 1, i - 1)>> \o Split(SubSeq(s, i + 1, Len(s)), c)

\* s.count(sub): the non-overlapping occurrences of a non-empty sub, left to right
RECURSIVE Count(_, _)
Count(s, sub) ==
    IF Len(s) < Len(sub) THEN 0
    ELSE IF SubSeq(s, 1, Len(sub)) = sub
         THEN 1 + Count(SubSeq(s, Len(sub) + 1, Len(s)), sub)
         ELSE Count(SubSeq(s, 2, Len(s)), sub)

\* any(term in text for term in terms)
AnyIn(terms, text) == \E i \in 1..Len(terms) : Contains(text, terms[i])

\* The elements of a sequence
Range(seq) == {seq[i] : i \in 1..Len(seq)}

\* The sequences over S of length at most n
SeqUpTo(S, n) == UNION {[1..k -> S] : k \in 0..n}

(***************************************************************************)
(* config.py: URL-pattern generation                                       *)
(***************************************************************************)
\* CAREER_PAGE_PATTERNS: each template is the text before and after "{company}"
CAREER_PAGE_PATTERNS == <<
    [pre |-> <<>>, post |-> <<".", "c", "o", "m", "/", "c", "a", "r", "e", "e", "r", "s">>],
    [pre |-> <<>>, post |-> <<".", "c", "o", "m", "/", "j", "o", "b", "s">>],
    [pre |-> <<>>, post |-> <<".", "c", "o", "m", "/", "w", "o", "r", "k", "-", "w", "i", "t", "h", "-", "u", "s">>],
    [pre |-> <<>>, post |-> <<".", "c", "o", "m", "/", "j", "o", "i", "n", "-", "u", "s">>],
    [pre |-> <<>>, post |-> <<".", "c", "o", "m", "/", "e", "m", "p", "l", "o", "y", "m", "e", "n", "t">>],
    [pre |-> <<>>, post |-> <<".", "c", "o", "m", "/", "a", "b", "o", "u", "t", "/", "c", "a", "r", "e", "e", "r", "s">>],
    [pre |-> <<>>, post |-> <<".", "c", "o", "m", "/", "a", "b", "o", "u", "t", "/", "j", "o", "b", "s">>],
    [pre |-> <<"c", "a", "r", "e", "e", "r", "s", ".">>, post |-> <<".", "c", "o", "m">>],
    [pre |-> <<"j", "o", "b", "s", ".">>, post |-> <<".", "c", "o", "m">>] >>

\* pattern.format(company=company_name)
Format(pattern, company) == pattern.pre \o company \o pattern.post

\* construct_career_urls(company_name)
construct_career_urls(company_name) ==
    LET company == RemoveChar(Lower(company_name), " ")
        url(pattern) == Format(pattern, company)
    IN  [i \in 1..Len(CAREER_PAGE_PATTERNS) |->
            IF ~StartsWith(url(CAREER_PAGE_PATTERNS[i]), <<"h", "t", "t", "p">>)
            THEN <<"h", "t", "t", "p", "s", ":", "/", "/">> \o url(CAREER_PAGE_PATTERNS[i])
            ELSE url(CAREER_PAGE_PATTERNS[i])]

(***************************************************************************)
(* llm_manager.py: the model client of the find_career_page / extract_jobs *)
(* pipeline                                                                *)
(***************************************************************************)
\* FREE_MODELS: the identifiers and whether each requires an API key
FREE_MODELS == {
    [name |-> <<"h", "u", "g", "g", "i", "n", "g", "f", "a", "c", "e", "/", "g", "p", "t", "2">>, requires_api_key |-> FALSE],
    [name |-> <<"h", "u", "g", "g", "i", "n", "g", "f", "a", "c", "e", "/", "d", "i", "s", "t", "i", "l", "b", "e", "r", "t">>, requires_api_key |-> FALSE],
    [name |-> <<"h", "u", "g", "g", "i", "n", "g", "f", "a", "c", "e", "/", "t", "5", "-", "s", "m", "a", "l", "l">>, requires_api_key |-> FALSE],
    [name |-> <<"h", "u", "g", "g", "i", "n", "g", "f", "a", "c", "e", "/", "r", "o", "b", "e", "r", "t", "a", "-", "b", "a", "s", "e">>, requires_api_key |-> FALSE],
    [name |-> <<"o", "p", "e", "n", "a", "i", "/", "g", "p", "t", "-", "3", ".", "5", "-", "t", "u", "r", "b", "o">>, requires_api_key |-> TRUE] }

\* get_available_models()
get_available_models == {m.name : m \in FREE_MODELS}

\* is_api_key_required(model_name)
is_api_key_required(model_name) ==
    IF model_name \in get_available_models
    THEN (CHOOSE m \in FREE_MODELS : m.name = model_name).requires_api_key
    ELSE FALSE

\* _query_huggingface(model_name, prompt, max_tokens): the demonstration reply
_query_huggingface(model_name) ==
    <<"[", "H", "u", "g", "g", "i", "n", "g", "F", "a", "c", "e", " ">> \o model_name \o <<" ", "r", "e", "s", "p", "o", "n", "s", "e", ":", " ", "P", "r", "o", "c", "e", "s", "s", "e", "d", " ", "j", "o", "b", " ", "d", "a", "t", "a", " ", "b", "a", "s", "e", "d", " ", "o", "n", " ", "t", "h", "e", " ", "p", "r", "o", "m", "p", "t", "]">>

\* _query_openai(model_name, prompt, api_key, max_tokens): the demonstration reply
_query_openai(model_name) ==
    <<"[", "O", "p", "e", "n", "A", "I", " ">> \o model_name \o <<" ", "r", "e", "s", "p", "o", "n", "s", "e", ":", " ", "P", "r", "o", "c", "e", "s", "s", "e", "d", " ", "j", "o", "b", " ", "d", "a", "t", "a", " ", "b", "a", "s", "e", "d", " ", "o", "n", " ", "t", "h", "e", " ", "p", "r", "o", "m", "p", "t", "]">>

\* What a call of query_model does: the exception it raises ("" for none), the
\* text it returns, and the backend function it entered ("" for none) with the
\* credential it passed on
ValueErrorReply(why) ==
    [raised |-> "ValueError", why |-> why, text |-> <<>>, backend |-> "", api_key |-> None]

\* query_model(model_name, prompt, api_key, max_tokens)
query_model(model_name, api_key) ==
    IF is_api_key_required(model_name) /\ Falsy(api_key)
    THEN ValueErrorReply("requires an API key")
    ELSE IF StartsWith(model_name, <<"h", "u", "g", "g", "i", "n", "g", "f", "a", "c", "e", "/">>)
    THEN [raised |-> "", why |-> "",
          text |-> _query_huggingface(Split(model_name, "/")[2]),
          backend |-> "_query_huggingface", api_key |-> None]
    ELSE IF StartsWith(model_name, <<"o", "p", "e", "n", "a", "i", "/">>)
    THEN [raised |-> "", why |-> "",
          text |-> _query_openai(Split(model_name, "/")[2]),
          backend |-> "_query_openai", api_key |-> api_key]
    ELSE ValueErrorReply("Unsupported model")

\* The calls that entered a backend query function so far, with the one this
\* reply stands for: the function, the model and the credential passed on
LogBackend(calls, model_name, reply) ==
    IF reply.backend = "" THEN calls
    ELSE Append(calls, [fn |-> reply.backend, model_name |-> model_name,
                        api_key |-> reply.api_key])

(***************************************************************************)
(* The web: what the sites answer                                          *)
(***************************************************************************)
\* A page: its <title>, the rest of its text, whether it has a <form>, and its
\* candidate elements
Page(title, text, forms) ==
    [title |-> title, text |-> text, forms |-> forms, elements |-> <<>>]

EmptyPage == Page(<<>>, <<>>, FALSE)

PageCareers == Page(<<"C", "a", "r", "e", "e", "r", "s">>, <<"O", "p", "e", "n", " ", "p", "o", "s", "i", "t", "i", "o", "n", "s", " ", "-", " ", "a", "p", "p", "l", "y", " ", "n", "o", "w">>, FALSE)

PageAbout == Page(<<"A", "c", "m", "e">>, <<"A", "b", "o", "u", "t", " ", "u", "s">>, FALSE)

PageHiring == Page(<<"A", "c", "m", "e">>, <<"W", "e", " ", "a", "r", "e", " ", "H", "i", "r", "i", "n", "g">>, FALSE)

PageForm == Page(<<"A", "c", "m", "e">>, <<"S", "u", "b", "m", "i", "t", " ", "y", "o", "u", "r", " ", "a", "p", "p", "l", "i", "c", "a", "t", "i", "o", "n">>, TRUE)

LocatorPages == {PageCareers, PageAbout, PageHiring, PageForm}

\* What a site answers to a request: nothing (a transport failure), or a status
\* with a page
Down == [up |-> FALSE, status |-> 0, page |-> EmptyPage]

Answer(status, page) == [up |-> TRUE, status |-> status, page |-> page]

SiteKinds ==
    {Down, Answer(404, EmptyPage), Answer(301, EmptyPage)}
        \cup {Answer(200, p) : p \in LocatorPages}

\* The answers the agent's scraper tells apart, with and without job vocabulary
AgentSiteKinds ==
    {Down, Answer(404, EmptyPage), Answer(200, EmptyPage), Answer(200, PageCareers),
     Answer(200, PageAbout)}

\* soup.get_text(): the title's text, then the body's
get_text(page) == page.title \o page.text

\* requests refuses a URL with no scheme (MissingSchema), with a space in its
\* host or with no host (InvalidURL): all are RequestExceptions
Fetchable(url) ==
    /\ StartsWith(url, <<"h", "t", "t", "p", ":", "/", "/">>) \/ StartsWith(url, <<"h", "t", "t", "p", "s", ":", "/", "/">>)
    /\ ~Contains(url, <<" ">>)
    /\ url \notin {<<"h", "t", "t", "p", ":", "/", "/">>, <<"h", "t", "t", "p", "s", ":", "/", "/">>}

(***************************************************************************)
(* search_engine.py: find_career_page                                      *)
(***************************************************************************)
\* The cleaned company name of _direct_url_construction and _extract_company_domain
clean_name(company_name) ==
    RemoveChar(RemoveChar(RemoveChar(Lower(company_name), " "), ","), ".")

\* _extract_company_domain(company_name)
_extract_company_domain(company_name) == clean_name(company_name)

\* The patterns of _direct_url_construction
DIRECT_PATTERNS == <<
    [pre |-> <<"h", "t", "t", "p", "s", ":", "/", "/">>, post |-> <<".", "c", "o", "m", "/", "c", "a", "r", "e", "e", "r", "s">>],
    [pre |-> <<"h", "t", "t", "p", "s", ":", "/", "/">>, post |-> <<".", "c", "o", "m", "/", "j", "o", "b", "s">>],
    [pre |-> <<"h", "t", "t", "p", "s", ":", "/", "/", "w", "w", "w", ".">>, post |-> <<".", "c", "o", "m", "/", "c", "a", "r", "e", "e", "r", "s">>],
    [pre |-> <<"h", "t", "t", "p", "s", ":", "/", "/", "w", "w", "w", ".">>, post |-> <<".", "c", "o", "m", "/", "j", "o", "b", "s">>],
    [pre |-> <<"h", "t", "t", "p", "s", ":", "/", "/">>, post |-> <<".", "c", "o", "m", "/", "a", "b", "o", "u", "t", "/", "c", "a", "r", "e", "e", "r", "s">>],
    [pre |-> <<"h", "t", "t", "p", "s", ":", "/", "/", "c", "a", "r", "e", "e", "r", "s", ".">>, post |-> <<".", "c", "o", "m">>] >>

\* patterns[i] in _direct_url_construction
DirectUrl(company_name, i) == Format(DIRECT_PATTERNS[i], clean_name(company_name))

\* The search queries of _google_search
SEARCH_QUERIES(company_name) == <<
    company_name \o <<" ", "c", "a", "r", "e", "e", "r", "s">>,
    company_name \o <<" ", "j", "o", "b", "s">>,
    company_name \o <<" ", "c", "a", "r", "e", "e", "r", " ", "o", "p", "p", "o", "r", "t", "u", "n", "i", "t", "i", "e", "s">>,
    company_name \o <<" ", "c", "a", "r", "e", "e", "r", "s", " ", "a", "p", "p", "l", "y">> >>

URL_KEYWORDS == << <<"c", "a", "r", "e", "e", "r">>, <<"j", "o", "b">>, <<"e", "m", "p", "l", "o", "y">>, <<"w", "o", "r", "k">>, <<"j", "o", "i", "n">>, <<"a", "p", "p", "l", "y">> >>

\* _google_search: a result is a social or review site's
IsSocial(url) ==
    AnyIn(<< <<"l", "i", "n", "k", "e", "d", "i", "n">>, <<"g", "l", "a", "s", "s", "d", "o", "o", "r">>, <<"i", "n", "d", "e", "e", "d">>, <<"f", "a", "c", "e", "b", "o", "o", "k">>, <<"t", "w", "i", "t", "t", "e", "r">> >>, Lower(url))

\* _google_search: a result's URL has a career-related keyword
HasUrlKeyword(url) == AnyIn(URL_KEYWORDS, Lower(url))

\* _google_search: a result is on the company's domain
OnCompanyDomain(company_name, url) ==
    LET company_domain == _extract_company_domain(company_name)
    IN  ~Falsy(company_domain) /\ Contains(Lower(url), company_domain)

\* is_career_page_content(url), given what the site answers
is_career_page_content(site) ==
    IF ~site.up \/ site.status >= 400 THEN FALSE    \* except Exception: return False
    ELSE
        LET title_text == Lower(site.page.title)
            content_text == Lower(get_text(site.page))
            career_terms == << <<"c", "a", "r", "e", "e", "r">>, <<"j", "o", "b">>, <<"p", "o", "s", "i", "t", "i", "o", "n">>, <<"o", "p", "e", "n", "i", "n", "g">>, <<"v", "a", "c", "a", "n", "c", "y">>,
                               <<"a", "p", "p", "l", "y">>, <<"j", "o", "i", "n", " ", "o", "u", "r", " ", "t", "e", "a", "m">>, <<"w", "o", "r", "k", " ", "w", "i", "t", "h", " ", "u", "s">> >>
            count == Count(content_text, <<"j", "o", "b">>) + Count(content_text, <<"c", "a", "r", "e", "e", "r">>)
                         + Count(content_text, <<"p", "o", "s", "i", "t", "i", "o", "n">>) + Count(content_text, <<"a", "p", "p", "l", "y">>)
            containers == {i \in 1..Len(site.page.elements) :
                              /\ site.page.elements[i].tag \in {"table", "ul", "div"}
                              /\ AnyIn(<< <<"j", "o", "b">>, <<"c", "a", "r", "e", "e", "r">>, <<"p", "o", "s", "i", "t", "i", "o", "n">> >>,
                                       Lower(site.page.elements[i].cls))}
        IN  \/ site.page.title # <<>> /\ AnyIn(URL_KEYWORDS, title_text)
            \/ AnyIn(career_terms, content_text) /\ count >= 3
            \/ site.page.forms
                  /\ AnyIn(<< <<"a", "p", "p", "l", "y">>, <<"s", "u", "b", "m", "i", "t">>, <<"a", "p", "p", "l", "i", "c", "a", "t", "i", "o", "n">> >>, content_text)
            \/ containers # {}

\* any(keyword in page_text for keyword in job_keywords) in validate_career_page
HasJobVocabulary(page) ==
    LET page_text == Lower(get_text(page))
        job_keywords == << <<"j", "o", "b">>, <<"c", "a", "r", "e", "e", "r">>, <<"p", "o", "s", "i", "t", "i", "o", "n">>, <<"o", "p", "e", "n", "i", "n", "g">>, <<"v", "a", "c", "a", "n", "c", "y">>,
                           <<"e", "m", "p", "l", "o", "y", "m", "e", "n", "t">>, <<"h", "i", "r", "i", "n", "g">>, <<"a", "p", "p", "l", "y">> >>
    IN  AnyIn(job_keywords, page_text)

\* validate_career_page(url), given what the site answers
validate_career_page(site) ==
    IF ~site.up \/ site.status >= 400 THEN FALSE    \* except Exception: return False
    ELSE HasJobVocabulary(site.page)

\* requests.head(url, timeout=5) followed by `response.status_code < 400`
HeadOk(site) == site.up /\ site.status < 400

\* The methods in the order model, patterns, web search
METHODS_model_first ==
    <<"_llm_based_search", "_direct_url_construction", "_google_search">>

\* methods in find_career_page
METHODS == <<"_google_search", "_direct_url_construction", "_llm_based_search">>

(***************************************************************************)
(* llm_module.py: the model client of the agent pipeline                   *)
(***************************************************************************)
\* SUPPORTED_MODELS (config.py): the type and the model name of each model type
SUPPORTED_MODELS == {
    [key |-> "llama3", type |-> "ollama", model_name |-> "llama3.3"],
    [key |-> "mistral", type |-> "huggingface", model_name |-> "mistralai/Mistral-7B-v0.1"] }

\* SUPPORTED_MODELS[model_type]
ModelConfig(model_type) == CHOOSE m \in SUPPORTED_MODELS : m.key = model_type

\* An initialize_model that gives up where the pipeline does not load: the
\* handler keeps its model_type and has no model
initialize_model_no_fallback(model_type, pipeline_loads) ==
    IF \A m \in SUPPORTED_MODELS : m.key # model_type
    THEN [raised |-> "ValueError", model_type |-> model_type, model |-> "None", calls |-> 1]
    ELSE IF ModelConfig(model_type).type = "ollama"
    THEN [raised |-> "", model_type |-> model_type,
          model |-> ModelConfig(model_type).model_name, calls |-> 1]
    ELSE IF pipeline_loads
    THEN [raised |-> "", model_type |-> model_type, model |-> "pipeline", calls |-> 1]
    ELSE [raised |-> "", model_type |-> model_type, model |-> "None", calls |-> 1]

\* LLMHandler.initialize_model, given whether the Hugging Face pipeline loads:
\* the exception raised ("" for none), the handler's model_type and model, and
\* how many times initialize_model was entered
RECURSIVE initialize_model(_, _)
initialize_model(model_type, pipeline_loads) ==
    IF \A m \in SUPPORTED_MODELS : m.key # model_type      \* `if not model_config`
    THEN [raised |-> "ValueError", model_type |-> model_type, model |-> "None", calls |-> 1]
    ELSE IF ModelConfig(model_type).type = "ollama"
    THEN [raised |-> "", model_type |-> model_type,
          model |-> ModelConfig(model_type).model_name, calls |-> 1]
    ELSE IF pipeline_loads
    THEN [raised |-> "", model_type |-> model_type, model |-> "pipeline", calls |-> 1]
    ELSE [initialize_model("llama3", pipeline_loads) EXCEPT !.calls = @ + 1]

\* The in-band error texts of LLMHandler.generate_text
ERROR_GENERATING == <<"E", "r", "r", "o", "r", " ", "g", "e", "n", "e", "r", "a", "t", "i", "n", "g", " ", "r", "e", "s", "p", "o", "n", "s", "e", " ", "f", "r", "o", "m", " ", "L", "L", "M", ".">>

ERROR_CONNECTING == <<"E", "r", "r", "o", "r", " ", "c", "o", "n", "n", "e", "c", "t", "i", "n", "g", " ", "t", "o", " ", "O", "l", "l", "a", "m", "a", " ", "A", "P", "I", ".">>

\* LLMHandler.generate_text, given what the backend does: "text" (it answers
\* with this text), "status" (Ollama answers with a status other than 200), or
\* "exception" (the call raises)
generate_text(model_type, backend, text) ==
    IF ModelConfig(model_type).type = "ollama"
    THEN CASE backend = "text" -> text
           [] backend = "status" -> ERROR_GENERATING
           [] OTHER -> ERROR_CONNECTING
    ELSE CASE backend = "text" -> text
           [] OTHER -> ERROR_GENERATING

\* LLMHandler.find_career_url, given generate_text's return value
find_career_url(generated) ==
    LET response == Strip(generated)
    IN  IF ~StartsWith(response, <<"h", "t", "t", "p">>) THEN <<"h", "t", "t", "p", "s", ":", "/", "/">> \o response ELSE response

\* LLMHandler.refine_search_query, given generate_text's return value
refine_search_query(keywords, generated) ==
    LET response == Strip(generated)
    IN  IF response = <<>> \/ Contains(Lower(response), <<"e", "r", "r", "o", "r">>)
        THEN keywords
        ELSE response

(***************************************************************************)
(* json.loads on the replies of the model                                  *)
(*                                                                         *)
(* In a reply, a JSON object literal is one item of the text: a string     *)
(* that is no single character. The replies hold no array inside an array, *)
(* no square bracket inside an object, and no object spelled character by  *)
(* character.                                                              *)
(***************************************************************************)
\* Python values as json.loads returns them and as the pipelines build them.
\* A dict has the keys in `keys`; the field of an absent key holds None
PyNone ==
    [type |-> "NoneType", value |-> 0, items |-> <<>>, keys |-> {},
     title |-> None, url |-> None, company |-> None, location |-> None,
     description |-> None, requirements |-> None, experience_level |-> None,
     content |-> None, relevance_score |-> 0]

PyInt(n) == [PyNone EXCEPT !.type = "int", !.value = n]

PyList(items) == [PyNone EXCEPT !.type = "list", !.items = items]

EmptyDict == [PyNone EXCEPT !.type = "dict"]

\* d.get(key, default)
Get(d, key, default) == IF key \in d.keys THEN d[key] ELSE default

\* The JSON object literals of the replies, and the dict each parses to
JSON_OBJECTS == {
    [lexeme |-> "{\"title\": \"Python Engineer\", \"relevance_score\": 9}",
     dict |-> [EmptyDict EXCEPT !.keys = {"title", "relevance_score"},
                                !.title = <<"P", "y", "t", "h", "o", "n", " ", "E", "n", "g", "i", "n", "e", "e", "r">>, !.relevance_score = 9]],
    [lexeme |-> "{\"title\": \"Data Analyst\", \"relevance_score\": 3}",
     dict |-> [EmptyDict EXCEPT !.keys = {"title", "relevance_score"},
                                !.title = <<"D", "a", "t", "a", " ", "A", "n", "a", "l", "y", "s", "t">>, !.relevance_score = 3]],
    [lexeme |-> "{\"title\": \"Office Manager\"}",
     dict |-> [EmptyDict EXCEPT !.keys = {"title"}, !.title = <<"O", "f", "f", "i", "c", "e", " ", "M", "a", "n", "a", "g", "e", "r">>]],
    [lexeme |-> "{\"title\": \"Backend Developer\", \"location\": \"Berlin\", \"description\": \"Build APIs\", \"requirements\": \"Python\", \"experience_level\": \"senior\"}",
     dict |-> [EmptyDict EXCEPT !.keys = {"title", "location", "description",
                                          "requirements", "experience_level"},
                                !.title = <<"B", "a", "c", "k", "e", "n", "d", " ", "D", "e", "v", "e", "l", "o", "p", "e", "r">>, !.location = <<"B", "e", "r", "l", "i", "n">>,
                                !.description = <<"B", "u", "i", "l", "d", " ", "A", "P", "I", "s">>,
                                !.requirements = <<"P", "y", "t", "h", "o", "n">>,
                                !.experience_level = <<"s", "e", "n", "i", "o", "r">>]],
    [lexeme |-> "{\"title\": \"\"}",
     dict |-> [EmptyDict EXCEPT !.keys = {"title"}, !.title = <<>>]],
    [lexeme |-> "{}", dict |-> EmptyDict] }

\* The literals by what they are used for
JobA == "{\"title\": \"Python Engineer\", \"relevance_score\": 9}"

JobB == "{\"title\": \"Data Analyst\", \"relevance_score\": 3}"

JobC == "{\"title\": \"Office Manager\"}"

FullObject == "{\"title\": \"Backend Developer\", \"location\": \"Berlin\", \"description\": \"Build APIs\", \"requirements\": \"Python\", \"experience_level\": \"senior\"}"

BlankTitleObject == "{\"title\": \"\"}"

EmptyObject == "{}"

ObjectLexemes == {o.lexeme : o \in JSON_OBJECTS}

Digits == <<"0", "1", "2", "3", "4", "5", "6", "7", "8", "9">>

\* The value of each digit
DigitValue == [c \in {Digits[i] : i \in 1..Len(Digits)} |->
                  (CHOOSE i \in 1..Len(Digits) : Digits[i] = c) - 1]

IsDigit(c) == c \in DOMAIN DigitValue

\* A JSON number of the replies: digits, with no leading zero
IsNumber(t) ==
    /\ Len(t) >= 1
    /\ \A i \in 1..Len(t) : IsDigit(t[i])
    /\ Len(t) = 1 \/ t[1] # "0"

RECURSIVE NumberValue(_)
NumberValue(t) ==
    IF t = <<>> THEN 0
    ELSE 10 * NumberValue(SubSeq(t, 1, Len(t) - 1)) + DigitValue[t[Len(t)]]

\* One JSON value that is no array: an object literal, a number or null
IsScalar(t) ==
    \/ Len(t) = 1 /\ t[1] \in ObjectLexemes
    \/ IsNumber(t)
    \/ t = <<"n", "u", "l", "l">>

ScalarValue(t) ==
    IF Len(t) = 1 /\ t[1] \in ObjectLexemes
    THEN (CHOOSE o \in JSON_OBJECTS : o.lexeme = t[1]).dict
    ELSE IF IsNumber(t) THEN PyInt(NumberValue(t))
    ELSE PyNone

\* The value of a JSON array, given the texts between its commas
ArrayValue(parts) ==
    IF \A i \in 1..Len(parts) : IsScalar(Strip(parts[i]))
    THEN [ok |-> TRUE,
          value |-> PyList([i \in 1..Len(parts) |-> ScalarValue(Strip(parts[i]))])]
    ELSE [ok |-> FALSE, value |-> PyNone]

\* json.loads(t) for t with no white space around it
LoadsStripped(t) ==
    IF IsScalar(t) THEN [ok |-> TRUE, value |-> ScalarValue(t)]
    ELSE IF Len(t) >= 2 /\ t[1] = "[" /\ t[Len(t)] = "]"
    THEN IF Strip(SubSeq(t, 2, Len(t) - 1)) = <<>>
         THEN [ok |-> TRUE, value |-> PyList(<<>>)]
         ELSE ArrayValue(Split(SubSeq(t, 2, Len(t) - 1), ","))
    ELSE [ok |-> FALSE, value |-> PyNone]

\* json.loads(text): ok is FALSE for a JSONDecodeError
JsonLoads(text) == LoadsStripped(Strip(text))

\* `not x` for a Python value
FalsyValue(v) ==
    \/ v.type = "NoneType"
    \/ v.type = "int" /\ v.value = 0
    \/ v.type = "list" /\ v.items = <<>>

\* LLMHandler.extract_jobs_from_html, given generate_text's return value
extract_jobs_from_html(generated) ==
    LET response == Strip(generated)
        start_idx == FindFrom(response, <<"[">>, 1)
        end_idx == RFindFrom(response, "]", Len(response))
        parsed == IF start_idx = 0 \/ end_idx = 0
                  THEN JsonLoads(response)
                  ELSE JsonLoads(SubSeq(response, start_idx, end_idx))
    IN  IF ~parsed.ok THEN PyList(<<>>)                   \* except json.JSONDecodeError
        ELSE IF parsed.value.type = "dict" THEN PyList(<<parsed.value>>)
        ELSE parsed.value

(***************************************************************************)
(* utils.py                                                                *)
(***************************************************************************)
\* The keys of an exported listing, each with the key of the listing it is
\* read from (lines 161-167)
EXPORT_KEYS ==
    [Title |-> "title", Company |-> "company", Location |-> "location",
     Description |-> "description", Requirements |-> "requirements",
     URL |-> "url"] @@ ("Experience Level" :> "experience_level")

\* format_job_listing_for_export(listings)
format_job_listing_for_export(listings) ==
    [job_listings |->
        [i \in 1..Len(listings) |->
            [key \in DOMAIN EXPORT_KEYS |-> Get(listings[i], EXPORT_KEYS[key], <<>>)]]]

(***************************************************************************)
(* web_scraper.py and agent.py                                             *)
(***************************************************************************)
\* A fetch that takes a site that does not answer for one that answers 200
\* with an empty page
fetch_page_unguarded(site) ==
    [none |-> FALSE, status_code |-> IF site.up THEN site.status ELSE 200, content |-> site.page]

\* WebScraper.fetch_page(url, timeout), given what the site answers: any
\* exception is caught and (None, None) returned
fetch_page(site) ==
    IF site.up
    THEN [none |-> FALSE, status_code |-> site.status, content |-> site.page]
    ELSE [none |-> TRUE, status_code |-> 0, content |-> EmptyPage]

\* A looser test that takes any answer of the site for a working page
Is200_any_answer(fetched) == ~fetched.none

\* `status_code == 200` on fetch_page's return value
Is200(fetched) == ~fetched.none /\ fetched.status_code = 200

\* The url _basic_job_extraction gives a job whose link has the attribute href
\* (lines 154-161): before an href that starts with "/" it puts
\* "/".join(url.split('/')[:3]), which is the href up to its third "/"
basic_job_url(href) ==
    LET parts == Split(href, "/")
        n == IF Len(parts) < 3 THEN Len(parts) ELSE 3
        base_url == SubSeq(href, 1, Len(parts[1]) + (IF n >= 2 THEN 1 + Len(parts[2]) ELSE 0)
                                        + (IF n >= 3 THEN 1 + Len(parts[3]) ELSE 0))
    IN  IF StartsWith(href, <<"/">>) THEN base_url \o href ELSE href

\* The company name WebScraper.search_jobs takes from the URL,
\* url.split("//")[1].split(".")[0], or the next label after "www"; ok is FALSE
\* where the indexing raises IndexError
CompanyOfUrl(url) ==
    LET i == FindFrom(url, <<"/", "/">>, 1)
        after == SubSeq(url, i + 2, Len(url))
        j == FindFrom(after, <<"/", "/">>, 1)
        second == IF j = 0 THEN after ELSE SubSeq(after, 1, j - 1)
        labels == Split(second, ".")
    IN  IF i = 0 THEN [ok |-> FALSE, name |-> <<>>]
        ELSE IF labels[1] # <<"w", "w", "w">> THEN [ok |-> TRUE, name |-> labels[1]]
        ELSE IF Len(labels) >= 2 THEN [ok |-> TRUE, name |-> labels[2]]
        ELSE [ok |-> FALSE, name |-> <<>>]

\* jobs.sort(key=lambda x: x.get('relevance_score', 0), reverse=True): stable,
\* largest key first
RECURSIVE SortJobs(_)
SortJobs(jobs) ==
    IF jobs = <<>> THEN <<>>
    ELSE LET SortKey(x) == Get(x, "relevance_score", 0)
             i == CHOOSE i \in 1..Len(jobs) :
                      /\ \A j \in 1..Len(jobs) : SortKey(jobs[j]) <= SortKey(jobs[i])
                      /\ \A j \in 1..(i - 1) : SortKey(jobs[j]) < SortKey(jobs[i])
         IN  <<jobs[i]>> \o SortJobs(SubSeq(jobs, 1, i - 1) \o SubSeq(jobs, i + 1, Len(jobs)))

\* MAX_JOBS_TO_DISPLAY (config.py)
MAX_JOBS_TO_DISPLAY == 10

\* A slice that keeps every job
Truncate_all(jobs, n) == jobs

\* jobs[:n]
Truncate(jobs, n) == SubSeq(jobs, 1, IF Len(jobs) < n THEN Len(jobs) ELSE n)

\* str(n) for 0 <= n
RECURSIVE IntText(_)
IntText(n) == IF n < 10 THEN <<Digits[n + 1]>> ELSE IntText(n \div 10) \o <<Digits[(n % 10) + 1]>>

(***************************************************************************)
(* job_extractor.py: the document a career page parses to                  *)
(***************************************************************************)
\* A node of the parsed document: an element with its tag, the tokens of its
\* class attribute, its href attribute (None if it has none) and its children,
\* or a text node
El(tag, cls, kids) == [tag |-> tag, cls |-> cls, href |-> None, text |-> <<>>, kids |-> kids]

Anchor(href, kids) == [tag |-> "a", cls |-> <<>>, href |-> href, text |-> <<>>, kids |-> kids]

TextNode(text) == [tag |-> "#text", cls |-> <<>>, href |-> None, text |-> text, kids |-> <<>>]

\* The BeautifulSoup object: the root of the document of a page
Soup(page) == El("[document]", <<>>, page.elements)

\* The elements below the given nodes in document order, each with its
\* ancestors, nearest first
RECURSIVE Walk(_, _)
Walk(nodes, up) ==
    IF nodes = <<>> THEN <<>>
    ELSE LET n == Head(nodes)
         IN  (IF n.tag = "#text" THEN <<>>
              ELSE <<[node |-> n, up |-> up]>> \o Walk(n.kids, <<n>> \o up))
             \o Walk(Tail(nodes), up)

\* element.get_text(): the text nodes below it, concatenated
RECURSIVE TextOf(_)
TextOf(nodes) ==
    IF nodes = <<>> THEN <<>>
    ELSE (IF Head(nodes).tag = "#text" THEN Head(nodes).text ELSE TextOf(Head(nodes).kids))
         \o TextOf(Tail(nodes))

\* The value of the class attribute: its tokens, separated by spaces
RECURSIVE ClassAttr(_)
ClassAttr(cls) ==
    IF cls = <<>> THEN <<>>
    ELSE IF Len(cls) = 1 THEN cls[1]
    ELSE cls[1] \o <<" ">> \o ClassAttr(Tail(cls))

\* The CSS selectors of common_selectors: `.c`, `tag[class*="sub"]` and `.c tag`
ByClass(c) == [kind |-> "class", tag |-> "", cls |-> c]

ByClassPart(tag, sub) == [kind |-> "class*", tag |-> tag, cls |-> sub]

Below(c, tag) == [kind |-> "below", tag |-> tag, cls |-> c]

common_selectors == <<
    ByClass(<<"j", "o", "b", "-", "c", "a", "r", "d">>), ByClass(<<"j", "o", "b", "-", "l", "i", "s", "t", "i", "n", "g">>), ByClass(<<"c", "a", "r", "e", "e", "r", "-", "o", "p", "p", "o", "r", "t", "u", "n", "i", "t", "y">>),
    ByClass(<<"j", "o", "b", "-", "o", "p", "e", "n", "i", "n", "g">>),
    ByClassPart("div", <<"j", "o", "b">>), ByClassPart("div", <<"c", "a", "r", "e", "e", "r">>), ByClassPart("li", <<"j", "o", "b">>),
    ByClassPart("div", <<"p", "o", "s", "i", "t", "i", "o", "n">>), Below(<<"c", "a", "r", "e", "e", "r", "s", "-", "l", "i", "s", "t">>, "li"),
    Below(<<"j", "o", "b", "-", "s", "e", "a", "r", "c", "h", "-", "r", "e", "s", "u", "l", "t", "s">>, "li"),
    Below(<<"j", "o", "b", "s", "-", "g", "r", "i", "d">>, "article"), ByClass(<<"j", "o", "b", "-", "g", "r", "i", "d", "-", "i", "t", "e", "m">>) >>

\* Whether the element w.node, with the ancestors w.up, matches the selector
Matches(selector, w) ==
    CASE selector.kind = "class" -> selector.cls \in Range(w.node.cls)
      [] selector.kind = "class*" ->
            /\ w.node.tag = selector.tag
            /\ w.node.cls # <<>>
            /\ Contains(ClassAttr(w.node.cls), selector.cls)
      [] OTHER ->
            /\ w.node.tag = selector.tag
            /\ \E i \in 1..Len(w.up) : selector.cls \in Range(w.up[i].cls)

\* soup.select(selector)
Select(soup, selector) == SelectSeq(Walk(<<soup>>, <<>>), LAMBDA w : Matches(selector, w))

\* The loop over common_selectors: the elements of the first selector that
\* selects any
RECURSIVE FirstSelection(_, _)
FirstSelection(soup, i) ==
    IF i > Len(common_selectors) THEN <<>>
    ELSE LET selected == Select(soup, common_selectors[i])
         IN  IF selected # <<>> THEN selected ELSE FirstSelection(soup, i + 1)

\* a[href*="job"] or a[href*="career"] below the element
HasJobLink(node) ==
    LET below == Walk(node.kids, <<node>>)
    IN  \E i \in 1..Len(below) :
            /\ below[i].node.tag = "a"
            /\ below[i].node.href # None
            /\ \/ Contains(below[i].node.href, <<"j", "o", "b">>)
               \/ Contains(below[i].node.href, <<"c", "a", "r", "e", "e", "r">>)

\* table.find_all('tr')
RowsOf(table) == SelectSeq(Walk(table.node.kids, <<table.node>> \o table.up),
                           LAMBDA w : w.node.tag = "tr")

\* soup.select('table:has(tr:has(a[href*="job"]), tr:has(a[href*="career"]))')
job_tables(soup) ==
    SelectSeq(Walk(<<soup>>, <<>>),
              LAMBDA w : /\ w.node.tag = "table"
                         /\ LET rows == RowsOf(w)
                            IN  \E i \in 1..Len(rows) : HasJobLink(rows[i].node))

\* The rows of the job tables, each table's header row skipped
RECURSIVE TableRows(_)
TableRows(tables) ==
    IF tables = <<>> THEN <<>>
    ELSE Tail(RowsOf(Head(tables))) \o TableRows(Tail(tables))

\* s.startswith(prefixes) for a tuple of prefixes
StartsWithAny(s, prefixes) == \E i \in 1..Len(prefixes) : StartsWith(s, prefixes[i])

\* _find_job_listing_links(soup, base_url)
_find_job_listing_links(soup) ==
    LET job_related_terms == << <<"j", "o", "b">>, <<"c", "a", "r", "e", "e", "r">>, <<"p", "o", "s", "i", "t", "i", "o", "n">>, <<"a", "p", "p", "l", "y">>, <<"v", "a", "c", "a", "n", "c", "y">> >>
    IN  SelectSeq(Walk(<<soup>>, <<>>),
                  LAMBDA w :
                      /\ w.node.tag = "a"
                      /\ w.node.href # None
                      /\ \/ AnyIn(job_related_terms, Lower(TextOf(w.node.kids)))
                         \/ AnyIn(job_related_terms, Lower(w.node.href))
                      /\ ~StartsWithAny(Lower(w.node.href), << <<"#">>, <<"m", "a", "i", "l", "t", "o", ":">>, <<"t", "e", "l", ":">> >>))

\* link.parent, with its own ancestors
ParentOf(w) == [node |-> Head(w.up), up |-> Tail(w.up)]

\* A discovery that adds up what the three strategies find
job_elements_mixed(soup) ==
    FirstSelection(soup, 1) \o TableRows(job_tables(soup))
        \o [i \in 1..Len(_find_job_listing_links(soup)) |->
                ParentOf(_find_job_listing_links(soup)[i])]

\* job_elements in _extract_raw_listings: the first selector that selects
\* anything, else the rows of the job tables, else the parents of the job links
job_elements(soup) ==
    LET selected == FirstSelection(soup, 1)
        rows == TableRows(job_tables(soup))
        job_links == _find_job_listing_links(soup)
    IN  IF selected # <<>> THEN selected
        ELSE IF rows # <<>> THEN rows
        ELSE [i \in 1..Len(job_links) |-> ParentOf(job_links[i])]

\* s.rstrip(c) and s.lstrip(c) for a character c
RECURSIVE RStripChar(_, _)
RStripChar(s, c) ==
    IF s # <<>> /\ s[Len(s)] = c THEN RStripChar(SubSeq(s, 1, Len(s) - 1), c) ELSE s

RECURSIVE LStripChar(_, _)
LStripChar(s, c) == IF s # <<>> /\ s[1] = c THEN LStripChar(Tail(s), c) ELSE s

\* element.select_one('h2, h3, h4, .title, .position, strong, b, a'): the
\* elements below it that match, in document order
TitleElements(element) ==
    SelectSeq(Walk(element.kids, <<element>>),
              LAMBDA w : \/ w.node.tag \in {"h2", "h3", "h4", "strong", "b", "a"}
                         \/ <<"t", "i", "t", "l", "e">> \in Range(w.node.cls)
                         \/ <<"p", "o", "s", "i", "t", "i", "o", "n">> \in Range(w.node.cls))

\* element.select_one('a')
UrlElements(element) ==
    SelectSeq(Walk(element.kids, <<element>>), LAMBDA w : w.node.tag = "a")

\* The body of the loop over job_elements: the raw listing of one element
\* (its 'html' key, which nothing reads, is left out)
RawListing(element, base_url) ==
    LET title_elements == TitleElements(element)
        url_elements == UrlElements(element)
        title == IF title_elements # <<>>
                 THEN Strip(TextOf(title_elements[1].node.kids))
                 ELSE <<"U", "n", "k", "n", "o", "w", "n", " ", "P", "o", "s", "i", "t", "i", "o", "n">>
        href == IF url_elements # <<>> THEN url_elements[1].node.href ELSE None
        url == IF ~Falsy(href) /\ ~StartsWithAny(href, << <<"h", "t", "t", "p", ":", "/", "/">>, <<"h", "t", "t", "p", "s", ":", "/", "/">> >>)
               THEN RStripChar(base_url, "/") \o <<"/">> \o LStripChar(href, "/")
               ELSE href
    IN  [EmptyDict EXCEPT !.keys = {"title", "url", "content"},
                          !.title = title, !.url = url,
                          !.content = Strip(TextOf(element.kids))]

\* _extract_raw_listings(page_content, base_url)
_extract_raw_listings(page, base_url) ==
    LET elements == job_elements(Soup(page))
    IN  [i \in 1..Len(elements) |-> RawListing(elements[i].node, base_url)]

(***************************************************************************)
(* job_extractor.py: structuring and filtering                             *)
(***************************************************************************)
\* The character classes of the regular expressions: \s, \d, \w and [^,\n]
InClass(class, c) ==
    CASE class = "\\s" -> c \in Whitespace
      [] class = "\\d" -> IsDigit(c)
      [] class = "\\w" ->
            c \in DOMAIN LowerOf \/ c \in Range(LowerCase) \/ IsDigit(c) \/ c = "_"
      [] OTHER -> c \notin {",", "\n"}

\* The end of the longest run of characters of a class that starts at i
\* (i - 1 if s[i] is not of the class)
RECURSIVE RunEnd(_, _, _)
RunEnd(s, i, class) ==
    IF i <= Len(s) /\ InClass(class, s[i]) THEN RunEnd(s, i + 1, class) ELSE i - 1

\* Where the group of `\s*([^,\n]+` may start, the white space running from q
\* to before g: at g or, if s[g] is not of the group's class, at the nearest
\* white space before it that is; 0 if nowhere
RECURSIVE GroupStartFrom(_, _, _)
GroupStartFrom(s, q, g) ==
    IF g < q THEN 0
    ELSE IF g <= Len(s) /\ InClass("[^,\\n]", s[g]) THEN g
    ELSE GroupStartFrom(s, q, g - 1)

GroupStart(s, q) == GroupStartFrom(s, q, RunEnd(s, q, "\\s") + 1)

\* A match of a pattern: where its group starts and ends (start 0: no match)
NoMatch == [start |-> 0, end |-> 0]

\* The end of the group `([^,\n]+(?:,\s*[^,\n]+)?)` whose first part ends at
\* end1, given where its second part may start (0: nowhere)
LocationEnd(s, end1, more) == IF more # 0 THEN RunEnd(s, more, "[^,\\n]") ELSE end1

\* The group `([^,\n]+(?:,\s*[^,\n]+)?)`, given the end of its first part
LocationGroup(s, start, end1) ==
    [start |-> start,
     end |-> LocationEnd(s, end1, IF end1 + 1 <= Len(s) /\ s[end1 + 1] = ","
                                  THEN GroupStart(s, end1 + 2) ELSE 0)]

\* `:?\s*(...)` from p on, given where the group may start after a colon at p
\* (0: nowhere, for which the colon is left to the group)
LocationFrom(s, p, after_colon) ==
    IF after_colon # 0 THEN LocationGroup(s, after_colon, RunEnd(s, after_colon, "[^,\\n]"))
    ELSE LocationGroup(s, p, RunEnd(s, p, "[^,\\n]"))

\* `\s*(...)` from p on, where there is no colon, given where the group may start
LocationPlain(s, start) ==
    IF start = 0 THEN NoMatch ELSE LocationGroup(s, start, RunEnd(s, start, "[^,\\n]"))

\* The match of r'Location:?\s*([^,\n]+(?:,\s*[^,\n]+)?)' with "Location" at i
LocationAt(s, i) ==
    IF Slice(s, i, i + 7) # <<"L", "o", "c", "a", "t", "i", "o", "n">> THEN NoMatch
    ELSE IF i + 8 <= Len(s) /\ s[i + 8] = ":" THEN LocationFrom(s, i + 8, GroupStart(s, i + 9))
    ELSE LocationPlain(s, GroupStart(s, i + 8))

\* r'(\d+-\d+)\s+years', ignoring case
YearsAt(s, i) ==
    LET d1 == RunEnd(s, i, "\\d")
        d2 == RunEnd(s, d1 + 2, "\\d")
        sp == RunEnd(s, d2 + 1, "\\s")
    IN  IF /\ d1 >= i
           /\ d1 + 1 <= Len(s) /\ s[d1 + 1] = "-"
           /\ d2 >= d1 + 2
           /\ sp >= d2 + 1
           /\ Lower(Slice(s, sp + 1, sp + 5)) = <<"y", "e", "a", "r", "s">>
        THEN [start |-> i, end |-> d2]
        ELSE NoMatch

\* The alternatives of r'(Senior|Junior|Mid|Entry[- ]Level|Principal|Lead)'
LEVELS == << <<"s", "e", "n", "i", "o", "r">>, <<"j", "u", "n", "i", "o", "r">>, <<"m", "i", "d">>, <<"e", "n", "t", "r", "y", "-", "l", "e", "v", "e", "l">>, <<"e", "n", "t", "r", "y", " ", "l", "e", "v", "e", "l">>, <<"p", "r", "i", "n", "c", "i", "p", "a", "l">>,
             <<"l", "e", "a", "d">> >>

LevelAt(s, i) ==
    LET found == {k \in 1..Len(LEVELS) : Lower(Slice(s, i, i + Len(LEVELS[k]) - 1)) = LEVELS[k]}
    IN  IF found = {} THEN NoMatch
        ELSE [start |-> i,
              end |-> i - 1 + Len(LEVELS[CHOOSE k \in found : \A j \in found : k <= j])]

\* r'Experience:?\s*(\w+)', ignoring case
ExperienceAt(s, i) ==
    LET p == i + 10
        q == IF p <= Len(s) /\ s[p] = ":" THEN p + 1 ELSE p
        g == RunEnd(s, q, "\\s") + 1
    IN  IF Lower(Slice(s, i, i + 9)) = <<"e", "x", "p", "e", "r", "i", "e", "n", "c", "e">> /\ g <= Len(s) /\ InClass("\\w", s[g])
        THEN [start |-> g, end |-> RunEnd(s, g, "\\w")]
        ELSE NoMatch

\* The match of the named pattern at position i
MatchAt(pattern, s, i) ==
    CASE pattern = "location" -> LocationAt(s, i)
      [] pattern = "years" -> YearsAt(s, i)
      [] pattern = "level" -> LevelAt(s, i)
      [] OTHER -> ExperienceAt(s, i)

\* The first of two matches that is one
Leftmost(left, right) == IF left.start # 0 THEN left ELSE right

\* The leftmost match of the pattern among those at the positions lo..hi
RECURSIVE FirstMatch(_, _, _, _)
FirstMatch(pattern, s, lo, hi) ==
    IF lo > hi THEN NoMatch
    ELSE IF lo = hi THEN MatchAt(pattern, s, lo)
    ELSE Leftmost(FirstMatch(pattern, s, lo, (lo + hi) \div 2),
                  FirstMatch(pattern, s, (lo + hi) \div 2 + 1, hi))

\* match.group(1), or None where there is no match
GroupOf(s, match) == IF match.start = 0 THEN None ELSE SubSeq(s, match.start, match.end)

\* re.search(pattern, s): the group of the leftmost match, or None
SearchGroup(pattern, s) == GroupOf(s, FirstMatch(pattern, s, 1, Len(s)))

\* `x if x else default` for x a match group or None
OrDefault(x, default) == IF x # None THEN x ELSE default

\* s[:n] + '...' if len(s) > n else s
Abridge(s, n) == IF Len(s) > n THEN SubSeq(s, 1, n) \o <<".", ".", ".">> ELSE s

\* _extract_basic_info(raw_listing)
_extract_basic_info(raw_listing) ==
    [EmptyDict EXCEPT
        !.keys = {"title", "location", "description", "requirements", "experience_level"},
        !.title = raw_listing.title,
        !.location = OrDefault(SearchGroup("location", raw_listing.content),
                               <<"N", "o", "t", " ", "s", "p", "e", "c", "i", "f", "i", "e", "d">>),
        !.description = Abridge(raw_listing.content, 300),
        !.requirements = <<"N", "o", "t", " ", "s", "p", "e", "c", "i", "f", "i", "e", "d">>,
        !.experience_level =
            OrDefault(SearchGroup("years", raw_listing.content),
                      OrDefault(SearchGroup("level", raw_listing.content),
                                OrDefault(SearchGroup("experience", raw_listing.content),
                                          <<"N", "o", "t", " ", "s", "p", "e", "c", "i", "f", "i", "e", "d">>)))]

\* re.search(r'\{.*\}', response, re.DOTALL): from the first "{" to the last
\* "}" (an object literal opens and closes with them); None if there is no match
BraceMatch(response) ==
    LET opens == {i \in 1..Len(response) : response[i] \in {"{"} \cup ObjectLexemes}
        first == CHOOSE i \in opens : \A j \in opens : i <= j
        closes == {i \in 1..Len(response) :
                      /\ response[i] \in {"}"} \cup ObjectLexemes
                      /\ i > first \/ (i = first /\ response[i] \in ObjectLexemes)}
        last == CHOOSE i \in closes : \A j \in closes : j <= i
    IN  IF opens = {} THEN None
        ELSE IF closes = {} THEN None
        ELSE SubSeq(response, first, last)

\* The value json.loads returned, or what is computed instead after a
\* JSONDecodeError
ValueOr(loaded, otherwise) == IF loaded.ok THEN loaded.value ELSE otherwise

\* json.loads(match.group(0)) where the pattern matched
LoadsMatch(match) == IF match = None THEN [ok |-> FALSE, value |-> PyNone] ELSE JsonLoads(match)

\* extracted_data in _process_listings, lines 214-227, given the response
ExtractedData(response, raw_listing) ==
    ValueOr(JsonLoads(response),
            ValueOr(LoadsMatch(BraceMatch(response)), _extract_basic_info(raw_listing)))

\* `extracted_data.get('title') or raw_listing['title']`
TitleOr(extracted_data, raw_listing) ==
    IF Falsy(Get(extracted_data, "title", None)) THEN raw_listing.title
    ELSE extracted_data.title

\* The fallback listing of lines 245-249
DegradedListing(raw_listing) ==
    [EmptyDict EXCEPT
        !.keys = {"title", "url", "description"},
        !.title = raw_listing.title,
        !.url = raw_listing.url,
        !.description = Abridge(raw_listing.content, 500)]

\* The structured listing of lines 230-238; where extracted_data is no dict its
\* `get` raises AttributeError, and the fallback listing is appended instead
StructuredListing(extracted_data, raw_listing) ==
    IF extracted_data.type # "dict" THEN DegradedListing(raw_listing) ELSE
    [EmptyDict EXCEPT
        !.keys = {"title", "url", "company", "location", "description", "requirements",
                  "experience_level"},
        !.title = TitleOr(extracted_data, raw_listing),
        !.url = raw_listing.url,
        !.company = Get(extracted_data, "company", <<>>),
        !.location = Get(extracted_data, "location", <<"N", "o", "t", " ", "s", "p", "e", "c", "i", "f", "i", "e", "d">>),
        !.description = Get(extracted_data, "description", <<"N", "o", " ", "d", "e", "s", "c", "r", "i", "p", "t", "i", "o", "n", " ", "a", "v", "a", "i", "l", "a", "b", "l", "e">>),
        !.requirements = Get(extracted_data, "requirements", <<"N", "o", "t", " ", "s", "p", "e", "c", "i", "f", "i", "e", "d">>),
        !.experience_level = Get(extracted_data, "experience_level", <<"N", "o", "t", " ", "s", "p", "e", "c", "i", "f", "i", "e", "d">>)]

\* The body of the loop of _process_listings for one raw listing, given what
\* query_model does: the listings it appends
ProcessListing(raw_listing, reply) ==
    IF reply.raised # "" THEN <<DegradedListing(raw_listing)>>
    ELSE <<StructuredListing(ExtractedData(reply.text, raw_listing), raw_listing)>>

\* A loop that forwards every raw listing
ProcessAsks_all(raw_listing) == TRUE

\* Whether _process_listings goes on to structure the raw listing: line 186
\* skips those with very little content
ProcessAsks(raw_listing) == ~(Len(raw_listing.content) < 20)

\* The keywords trimmed but left in the case they were typed in
keywords_list_as_typed(keywords) ==
    LET parts == Split(keywords, ",")
    IN  [i \in 1..Len(parts) |-> Strip(parts[i])]

\* [k.strip().lower() for k in keywords.split(',')]
keywords_list(keywords) ==
    LET parts == Split(keywords, ",")
    IN  [i \in 1..Len(parts) |-> Lower(Strip(parts[i]))]

\* str(x) in an f-string, for x a text or None
Str(x) == IF x = None THEN <<"N", "o", "n", "e">> ELSE x

\* listing_text of line 314
listing_text(listing) ==
    Lower(Str(listing.title) \o <<" ">> \o Str(listing.description) \o <<" ">>
              \o Str(listing.requirements))

\* Whether line 314 raises KeyError for the listing
MissingKey(listing) == ~({"title", "description", "requirements"} \subseteq listing.keys)

\* basic_match of line 315
basic_match(listing, keywords) == AnyIn(keywords_list(keywords), listing_text(listing))

\* A filter that appends a literal match twice
FilterListing_twice(listing, keywords, reply) ==
    IF MissingKey(listing) THEN [raised |-> "KeyError", kept |-> <<>>]
    ELSE IF basic_match(listing, keywords) THEN [raised |-> "", kept |-> <<listing, listing>>]
    ELSE [raised |-> "", kept |-> <<>>]

\* A filter that lets an exception of query_model leave it
FilterListing_propagating(listing, keywords, reply) ==
    IF MissingKey(listing) THEN [raised |-> "KeyError", kept |-> <<>>]
    ELSE IF basic_match(listing, keywords) THEN [raised |-> "", kept |-> <<listing>>]
    ELSE IF reply.raised # "" THEN [raised |-> reply.raised, kept |-> <<>>]
    ELSE IF Lower(Strip(reply.text)) = <<"y", "e", "s">> THEN [raised |-> "", kept |-> <<listing>>]
    ELSE [raised |-> "", kept |-> <<>>]

\* A filter that takes every answer that begins with yes for a yes
FilterListing_lenient(listing, keywords, reply) ==
    IF MissingKey(listing) THEN [raised |-> "KeyError", kept |-> <<>>]
    ELSE IF basic_match(listing, keywords) THEN [raised |-> "", kept |-> <<listing>>]
    ELSE IF reply.raised # "" THEN [raised |-> "", kept |-> <<>>]
    ELSE IF StartsWith(Lower(Strip(reply.text)), <<"y", "e", "s">>) THEN [raised |-> "", kept |-> <<listing>>]
    ELSE [raised |-> "", kept |-> <<>>]

\* The body of the loop of _filter_by_keywords for one listing, given what
\* query_model does when asked: the exception it raises ("" for none) and the
\* listings it appends
FilterListing(listing, keywords, reply) ==
    IF MissingKey(listing) THEN [raised |-> "KeyError", kept |-> <<>>]
    ELSE IF basic_match(listing, keywords) THEN [raised |-> "", kept |-> <<listing>>]
    ELSE IF reply.raised # "" THEN [raised |-> "", kept |-> <<>>]
    ELSE IF Lower(Strip(reply.text)) = <<"y", "e", "s">> THEN [raised |-> "", kept |-> <<listing>>]
    ELSE [raised |-> "", kept |-> <<>>]

\* Whether _filter_by_keywords calls query_model for the listing
FilterAsks(listing, keywords) == ~MissingKey(listing) /\ ~basic_match(listing, keywords)

(***************************************************************************)
(* Bounds and inputs                                                       *)
(***************************************************************************)
\* Longest company name given to URL-pattern generation
MaxNameLen == 4

\* The characters company names are drawn from: an upper-case letter, letters
\* that spell "http", a space, a comma and a period
NameChars == {"H", "t", "p", " ", ",", "."}

CompanyNames == SeqUpTo(NameChars, MaxNameLen)

\* Most results one web search returns
MaxResults == 2

\* The companies searched for
LocatorCompanies == { <<"A", "c", "m", "e">>, <<"A", "c", "m", "e", ",", " ", "I", "n", "c", ".">> }

\* The model identifiers a caller may pass: the configured ones, a hosted model
\* that is not configured, and an identifier of no known family
ModelNames == get_available_models \cup { <<"o", "p", "e", "n", "a", "i", "/", "g", "p", "t", "-", "4">>, <<"l", "l", "a", "m", "a", "3">> }

\* The credentials a caller may pass: none, the empty text of a blank input
\* field, and a key
ApiKeys == {None, <<>>, <<"s", "k", "-", "1">>}

\* The URLs a web search may return
SearchResults == {
    <<"h", "t", "t", "p", "s", ":", "/", "/", "w", "w", "w", ".", "l", "i", "n", "k", "e", "d", "i", "n", ".", "c", "o", "m", "/", "c", "o", "m", "p", "a", "n", "y", "/", "a", "c", "m", "e", "/", "j", "o", "b", "s">>,
    <<"h", "t", "t", "p", "s", ":", "/", "/", "a", "c", "m", "e", ".", "c", "o", "m", "/", "c", "a", "r", "e", "e", "r", "s">>,
    <<"h", "t", "t", "p", "s", ":", "/", "/", "w", "w", "w", ".", "a", "c", "m", "e", ".", "c", "o", "m", "/", "a", "b", "o", "u", "t">>,
    <<"h", "t", "t", "p", "s", ":", "/", "/", "e", "x", "a", "m", "p", "l", "e", ".", "o", "r", "g", "/">> }

\* The model types an agent may be constructed with: the supported ones and
\* one that is not
AgentModelTypes == {"llama3", "mistral", "gpt-4"}

\* The companies and keywords the agent is asked about
AgentCompanies == { <<"A", "c", "m", "e">>, <<"H", "t", "t", "p", " ", "C", "o">> }

AgentKeywords == { <<"p", "y", "t", "h", "o", "n", ",", " ", "r", "e", "m", "o", "t", "e">> }

\* What the model may answer when asked to refine the query
RefineReplies == { <<" ", "s", "e", "n", "i", "o", "r", " ", "p", "y", "t", "h", "o", "n", " ", "d", "e", "v", "e", "l", "o", "p", "e", "r", "\n">>, <<"N", "o", " ", "e", "r", "r", "o", "r", "s", ":", " ", "p", "y", "t", "h", "o", "n">> }

\* What the model may answer when asked for the career URL: the first pattern
\* URL of Acme, the second without its scheme, a URL that is no pattern URL,
\* and a blank
UrlReplies == {
    <<"h", "t", "t", "p", "s", ":", "/", "/", "a", "c", "m", "e", ".", "c", "o", "m", "/", "c", "a", "r", "e", "e", "r", "s">>,
    <<" ", "a", "c", "m", "e", ".", "c", "o", "m", "/", "j", "o", "b", "s", "\n">>,
    <<"h", "t", "t", "p", "s", ":", "/", "/", "j", "o", "b", "s", ".", "e", "x", "a", "m", "p", "l", "e", ".", "o", "r", "g", "/", "a", "c", "m", "e">>,
    <<" ">> }

\* A JSON array of n copies of one object
ArrayOf(lexeme, n) ==
    <<"[">> \o [i \in 1..(2 * n - 1) |-> IF i % 2 = 1 THEN lexeme ELSE ","] \o <<"]">>

\* Longest array the model answers with: one more than MAX_JOBS_TO_DISPLAY
MaxArray == 11

\* A JSON array as long, of listings of three kinds: one without a score, then
\* copies of one with the score 9, then one with the score 3
MixedArray ==
    <<"[", JobC, ",">> \o [i \in 1..(2 * (MaxArray - 2)) |-> IF i % 2 = 1 THEN JobA ELSE ","]
        \o <<JobB, "]">>

\* What the model may answer when asked for the listings of a page
JobsReplies == {
    <<"[", JobB, ",", " ", JobC, ",", JobA, "]">>,
    <<"H", "e", "r", "e", " ", "a", "r", "e", " ", "t", "h", "e", " ", "j", "o", "b", "s", ":", "\n", "[">> \o <<JobA>> \o <<"]", "\n", "G", "o", "o", "d", " ", "l", "u", "c", "k", "!">>,
    <<JobB>>,
    <<"[", "]">>,
    <<"4", "2">>,
    <<"n", "u", "l", "l">>,
    <<"[", "1", ",", " ", "2", "]">>,
    <<"N", "o", " ", "j", "o", "b", "s", " ", "f", "o", "u", "n", "d", ".">>,
    <<"]", " ", "n", "o", "n", "e", " ", "[">>,
    ArrayOf(JobA, MaxArray),
    MixedArray }

\* A page with candidate elements
CareerPage(elements) == [title |-> <<>>, text |-> <<>>, forms |-> FALSE, elements |-> elements]

\* One <div class="job-listing"> that holds text alone
PageListing ==
    CareerPage(<<El("div", << <<"j", "o", "b", "-", "l", "i", "s", "t", "i", "n", "g">> >>,
                    <<TextNode(<<"P", "y", "t", "h", "o", "n", " ", "E", "n", "g", "i", "n", "e", "e", "r", " ", "-", " ", "R", "e", "m", "o", "t", "e", " ", "-", " ", "B", "u", "i", "l", "d", " ", "g", "r", "e", "a", "t", " ", "t", "h", "i", "n", "g", "s">>)>>)>>)

\* Three cards: one with a heading, a relative link and a location, one with
\* less text than _process_listings asks for, one with an absolute link
PageCards ==
    CareerPage(<<
        El("div", << <<"j", "o", "b", "-", "c", "a", "r", "d">>, <<"f", "e", "a", "t", "u", "r", "e", "d">> >>,
           <<El("h3", <<>>, <<TextNode(<<" ", "P", "y", "t", "h", "o", "n", " ", "D", "e", "v", "e", "l", "o", "p", "e", "r", " ">>)>>),
             TextNode(<<"\n", "L", "o", "c", "a", "t", "i", "o", "n", ":", " ", "B", "e", "r", "l", "i", "n", ",", " ", "G", "e", "r", "m", "a", "n", "y", "\n", "3", "-", "5", " ", "y", "e", "a", "r", "s", ",", " ">>),
             Anchor(<<"/", "j", "o", "b", "s", "/", "1">>, <<TextNode(<<"D", "e", "t", "a", "i", "l", "s">>)>>)>>),
        El("div", << <<"j", "o", "b", "-", "c", "a", "r", "d">> >>, <<El("b", <<>>, <<TextNode(<<"I", "n", "t", "e", "r", "n">>)>>)>>),
        El("div", << <<"j", "o", "b", "-", "c", "a", "r", "d">> >>,
           <<Anchor(<<"h", "t", "t", "p", "s", ":", "/", "/", "j", "o", "b", "s", ".", "a", "c", "m", "e", ".", "c", "o", "m", "/", "2">>, <<TextNode(<<"J", "a", "v", "a", " ", "D", "e", "v", "e", "l", "o", "p", "e", "r">>)>>),
             TextNode(<<" ", "L", "e", "a", "d", " ", "o", "u", "r", " ", "p", "l", "a", "t", "f", "o", "r", "m", " ", "t", "e", "a", "m">>)>>) >>)

\* A table of jobs below a header row, and nothing the selectors select
PageTable ==
    CareerPage(<<
        El("table", <<>>,
           <<El("tr", <<>>, <<El("th", <<>>, <<TextNode(<<"O", "p", "e", "n", " ", "r", "o", "l", "e", "s">>)>>)>>),
             El("tr", <<>>,
                <<El("td", <<>>,
                     <<Anchor(<<"j", "o", "b", "/", "7">>, <<TextNode(<<"D", "a", "t", "a", " ", "A", "n", "a", "l", "y", "s", "t">>)>>),
                       TextNode(<<" ", "-", " ", "r", "e", "m", "o", "t", "e", " ", "a", "n", "a", "l", "y", "t", "i", "c", "s", " ", "t", "e", "a", "m">>)>>)>>)>>) >>)

\* No candidate element: no class the selectors know, no table, no link
PagePlain == CareerPage(<<El("p", <<>>, <<TextNode(<<"W", "e", " ", "a", "r", "e", " ", "n", "o", "t", " ", "h", "i", "r", "i", "n", "g", " ", "r", "i", "g", "h", "t", " ", "n", "o", "w", ".">>)>>)>>)

\* Links alone: one to a job, one to a mail address
PageLinks ==
    CareerPage(<<
        El("p", <<>>,
           <<Anchor(<<"m", "a", "i", "l", "t", "o", ":", "j", "o", "b", "s", "@", "a", "c", "m", "e", ".", "c", "o", "m">>, <<TextNode(<<"M", "a", "i", "l", " ", "u", "s">>)>>),
             Anchor(<<"o", "p", "e", "n", "i", "n", "g", "s", "/", "9">>, <<TextNode(<<"A", "p", "p", "l", "y", ":", " ", "O", "f", "f", "i", "c", "e", " ", "M", "a", "n", "a", "g", "e", "r">>)>>),
             TextNode(<<" ", "(", "J", "u", "n", "i", "o", "r", ")">>)>>) >>)

\* Something for every strategy: an element of the second selector, then one
\* of the first, a table of jobs and a link to a job
PageMixed ==
    CareerPage(<<
        El("div", << <<"j", "o", "b", "-", "l", "i", "s", "t", "i", "n", "g">> >>, <<TextNode(<<"S", "i", "t", "e", " ", "R", "e", "l", "i", "a", "b", "i", "l", "i", "t", "y", " ", "E", "n", "g", "i", "n", "e", "e", "r", " ", "(", "L", "i", "s", "b", "o", "n", ")">>)>>),
        El("div", << <<"j", "o", "b", "-", "c", "a", "r", "d">> >>, <<TextNode(<<"P", "y", "t", "h", "o", "n", " ", "E", "n", "g", "i", "n", "e", "e", "r", ",", " ", "r", "e", "m", "o", "t", "e", " ", "o", "r", " ", "B", "e", "r", "l", "i", "n">>)>>),
        El("table", <<>>,
           <<El("tr", <<>>, <<El("th", <<>>, <<TextNode(<<"O", "p", "e", "n", " ", "r", "o", "l", "e", "s">>)>>)>>),
             El("tr", <<>>,
                <<El("td", <<>>, <<Anchor(<<"j", "o", "b", "/", "8">>, <<TextNode(<<"A", "c", "c", "o", "u", "n", "t", "a", "n", "t">>)>>)>>)>>)>>),
        El("p", <<>>, <<Anchor(<<"a", "p", "p", "l", "y", "/", "3">>, <<TextNode(<<"A", "p", "p", "l", "y", " ", "a", "s", " ", "a", " ", "d", "e", "s", "i", "g", "n", "e", "r">>)>>)>>) >>)

\* Three cards with text of 19, 20 and 21 characters
PageShort ==
    CareerPage(<<
        El("div", << <<"j", "o", "b", "-", "c", "a", "r", "d">> >>, <<TextNode(<<"P", "y", "t", "h", "o", "n", " ", "D", "e", "v", " ", "-", " ", "R", "e", "m", "o", "t", "e">>)>>),
        El("div", << <<"j", "o", "b", "-", "c", "a", "r", "d">> >>, <<TextNode(<<"R", "u", "s", "t", " ", "D", "e", "v", " ", "i", "n", " ", "P", "o", "r", "t", "u", "g", "a", "l">>)>>),
        El("div", << <<"j", "o", "b", "-", "c", "a", "r", "d">> >>, <<TextNode(<<"Q", "A", " ", "E", "n", "g", "i", "n", "e", "e", "r", " ", "-", " ", "O", "n", " ", "s", "i", "t", "e">>)>>) >>)

\* Longest text of a listing: one more than the 500 characters a fallback
\* listing keeps of it
MaxContent == 501

\* A card whose text is of the longest length
PageLong ==
    CareerPage(<<El("div", << <<"j", "o", "b", "-", "c", "a", "r", "d">> >>,
                    <<TextNode([i \in 1..MaxContent |-> IF i % 7 = 0 THEN " " ELSE "x"])>>)>>)

ExtractPages ==
    {PageListing, PageCards, PageTable, PagePlain, PageLinks, PageMixed, PageShort, PageLong}

\* What the career page may answer to extract_jobs
ExtractSiteKinds ==
    {Down, Answer(404, EmptyPage)} \cup {Answer(200, page) : page \in ExtractPages}

\* The arguments of extract_jobs
\* The href attributes of the links of job elements
Hrefs == { <<"/", "j", "o", "b", "s", "/", "1">>, <<"/">>, <<"j", "o", "b", "/", "7">>, <<"/", "/", "j", "o", "b", "s", ".", "a", "c", "m", "e", ".", "c", "o", "m", "/", "2">>, <<"h", "t", "t", "p", "s", ":", "/", "/", "j", "o", "b", "s", ".", "a", "c", "m", "e", ".", "c", "o", "m", "/", "2">>,
           <<"/", "a", "/", "b", "/", "c", "/", "d">> }

ExtractUrls == { <<"h", "t", "t", "p", "s", ":", "/", "/", "a", "c", "m", "e", ".", "c", "o", "m", "/", "c", "a", "r", "e", "e", "r", "s", "/">> }

ExtractKeywords == { <<"p", "y", "t", "h", "o", "n", ",", " ", "r", "e", "m", "o", "t", "e">>, <<"J", "a", "v", "a">>, <<"c", "o", "b", "o", "l", ",">>, <<>> }

ExtractModels == { <<"h", "u", "g", "g", "i", "n", "g", "f", "a", "c", "e", "/", "g", "p", "t", "2">>, <<"o", "p", "e", "n", "a", "i", "/", "g", "p", "t", "-", "3", ".", "5", "-", "t", "u", "r", "b", "o">>, <<"l", "l", "a", "m", "a", "3">> }

ExtractKeys == {None, <<"s", "k", "-", "1">>}

\* What a backend query function may return in place of the demonstration reply
StubTexts == {
    <<" ", "Y", "e", "s", "\n">>, <<"Y", "e", "s", ".">>, <<"n", "o">>, <<FullObject>>, <<"S", "u", "r", "e", ":", " ">> \o <<FullObject>> \o <<" ", "D", "o", "n", "e", ".">>, <<"4", "2">>,
    <<BlankTitleObject>> }

(***************************************************************************)
(* What a call of JobSearchAgent.search_jobs did and gave                  *)
(***************************************************************************)
\* A GET request of the scraper: the strategy it serves, its URL, its timeout
\* in seconds, whether the answer had status 200, and whether the page
\* answered holds job vocabulary (which the scraper does not read)
Request(strategy, url, timeout, site) ==
    [ev |-> "request", strategy |-> strategy, url |-> url, timeout |-> timeout,
     ok |-> site.up /\ site.status = 200,
     vocabulary |-> site.up /\ HasJobVocabulary(site.page), text |-> <<>>]

\* A call of LLMHandler.generate_text for the named prompt: whether the
\* backend answered, and the text generate_text returned; its request to the
\* model server sets no timeout
ModelCall(prompt, generated) ==
    [ev |-> "generate_text", strategy |-> prompt, url |-> <<>>, timeout |-> 0,
     ok |-> generated.backend = "text", vocabulary |-> FALSE, text |-> generated.text]

\* time.sleep(random.uniform(0.5, 1.5)) in test_career_urls
Sleep == [ev |-> "sleep", strategy |-> "patterns", url |-> <<>>, timeout |-> 0, ok |-> TRUE,
          vocabulary |-> FALSE, text |-> <<>>]

\* A local variable that was not assigned
Unbound == [PyNone EXCEPT !.type = "unbound"]

NoResult == [outcome |-> "running", raised |-> "", jobs |-> <<>>]

Returned(jobs) == [outcome |-> "returned", raised |-> "", jobs |-> jobs]

Raised(exception) == [outcome |-> "raised", raised |-> exception, jobs |-> <<>>]

(***************************************************************************)
(* State                                                                   *)
(***************************************************************************)
VARIABLES
    op,             \* the entry point that was called ("idle" before any call)
    cu_company,     \* construct_career_urls: its argument
    cu_urls,        \* construct_career_urls: its return value
    bj_href,        \* _basic_job_extraction: the href of the link of a job element
    bj_url,         \* _basic_job_extraction: the url of the job made from the element
    backend_calls,  \* the calls that entered a backend query function
    fc_args,        \* find_career_page: company_name, model_name, api_key (the last two
                    \* are drawn when first read, by _llm_based_search)
    fc_method,      \* find_career_page: index in METHODS of the running method
    fc_query,       \* _google_search: index of the current search query
    fc_results,     \* _google_search: the results left of the current query (None: not searched yet)
    fc_pattern,     \* _direct_url_construction: index of the next pattern
    fc_request,     \* find_career_page: the site requested last, with the method that
                    \* asked, the URL and whether the site answered
    fc_probes,      \* _direct_url_construction: what its loop did so far, request by
                    \* request (the loop has no other call)
    fc_trail,       \* find_career_page: the methods that returned, each with its URL and validation
    fc_result,      \* find_career_page: its return value
    ag_pc,          \* the agent: "none" before construction, then its position in search_jobs
    llm_handler,    \* the agent's LLMHandler: its model_type and model, and how many
                    \* times its construction entered initialize_model
    ag_args,        \* JobSearchAgent.search_jobs: company_name and keywords
    status_messages,\* the agent's status messages
    refined_keywords, \* JobSearchAgent.search_jobs: the refined query
    career_url,     \* JobSearchAgent.search_jobs: the career URL
    ag_idx,         \* WebScraper.test_career_urls: index of the next potential URL
    ag_events,      \* the requests, model calls and sleeps of the running search_jobs call
    ag_request,     \* WebScraper.fetch_page: the strategy and the site of its last call
    ag_again,       \* whether search_jobs was called on this agent before the current call
    ag_jobs,        \* JobSearchAgent.search_jobs: jobs, as the scraper returned it
    ag_result,      \* JobSearchAgent.search_jobs: what it returned or raised
    ex_args,        \* extract_jobs: career_page_url, keywords, model_name, api_key (the
                    \* last two are drawn when first read)
    ex_page,        \* extract_jobs: what the career page answered to its request
    ex_pc,          \* extract_jobs: the function that runs ("" for none)
    ex_i,           \* extract_jobs: index of the listing the running loop is at
    raw_listings,   \* extract_jobs: raw_listings
    structured_listings, \* extract_jobs: structured_listings
    filtered_listings,   \* _filter_by_keywords: filtered_listings
    ex_calls,       \* extract_jobs: the calls of query_model, each with the function that
                    \* called, the index of its listing and what the call did
    ex_stubbed,     \* whether a backend query function returned anything but its
                    \* demonstration reply
    ex_result,      \* extract_jobs: what it returned or raised
    ex_exported     \* format_job_listing_for_export: the return value of its call with
                    \* the listings extract_jobs returned (empty before the call)

urlVars == <<cu_company, cu_urls, bj_href, bj_url>>

fcVars == <<fc_args, fc_method, fc_query, fc_results, fc_pattern, fc_request, fc_probes, fc_trail,
            fc_result>>

agVars == <<ag_pc, llm_handler, ag_args, status_messages, refined_keywords, career_url,
            ag_idx, ag_events, ag_request, ag_again, ag_jobs, ag_result>>

exVars == <<ex_args, ex_page, ex_pc, ex_i, raw_listings, structured_listings, filtered_listings,
            ex_calls, ex_stubbed, ex_result, ex_exported>>

vars == <<op, urlVars, backend_calls, fcVars, agVars, exVars>>

Init ==
    /\ op = "idle"
    /\ cu_company = None
    /\ cu_urls = <<>>
    /\ bj_href = None
    /\ bj_url = None
    /\ backend_calls = <<>>
    /\ fc_args = [company_name |-> None, model_name |-> None, api_key |-> None]
    /\ fc_method = 0
    /\ fc_query = 0
    /\ fc_results = None
    /\ fc_pattern = 0
    /\ fc_request = [method |-> "", url |-> None, up |-> FALSE, timeout |-> 0]
    /\ fc_probes = <<>>
    /\ fc_trail = <<>>
    /\ fc_result = None
    /\ ag_pc = "none"
    /\ llm_handler = [model_type |-> "None", model |-> "None", calls |-> 0]
    /\ ag_args = [company_name |-> None, keywords |-> None]
    /\ status_messages = <<>>
    /\ refined_keywords = None
    /\ career_url = None
    /\ ag_idx = 0
    /\ ag_events = <<>>
    /\ ag_request = [strategy |-> "", up |-> FALSE]
    /\ ag_again = FALSE
    /\ ag_jobs = Unbound
    /\ ag_result = NoResult
    /\ ex_args = [career_page_url |-> None, keywords |-> None, model_name |-> None,
                  api_key |-> None]
    /\ ex_page = Down
    /\ ex_pc = ""
    /\ ex_i = 0
    /\ raw_listings = <<>>
    /\ structured_listings = <<>>
    /\ filtered_listings = <<>>
    /\ ex_calls = <<>>
    /\ ex_stubbed = FALSE
    /\ ex_result = NoResult
    /\ ex_exported = <<>>

(***************************************************************************)
(* Requests                                                                *)
(***************************************************************************)
\* What the site of url may answer to a request: nothing, if requests refuses
\* the URL; else anything
Answers(url) == IF Fetchable(url) THEN SiteKinds ELSE {Down}

\* The same for the requests of the agent's scraper, which reads the status
\* and whether the document is empty
AgentAnswers(url) == IF Fetchable(url) THEN AgentSiteKinds ELSE {Down}

(***************************************************************************)
(* Actions: config.construct_career_urls                                   *)
(***************************************************************************)
\* A call of config.construct_career_urls
CallConstructCareerUrls ==
    /\ op = "idle"
    /\ \E name \in CompanyNames :
        /\ cu_company' = name
        /\ cu_urls' = construct_career_urls(name)
    /\ op' = "construct_career_urls"
    /\ UNCHANGED <<bj_href, bj_url, backend_calls, fcVars, agVars, exVars>>

\* WebScraper._basic_job_extraction, lines 153-161, for a job element whose
\* link has the attribute href
CallBasicJobUrl ==
    /\ op = "idle"
    /\ \E href \in Hrefs :
        /\ bj_href' = href
        /\ bj_url' = basic_job_url(href)
    /\ op' = "_basic_job_extraction"
    /\ UNCHANGED <<cu_company, cu_urls, backend_calls, fcVars, agVars, exVars>>

(***************************************************************************)
(* Actions: search_engine.find_career_page                                 *)
(***************************************************************************)
\* A call of find_career_page: the loop over the methods starts with the first
CallFindCareerPage ==
    /\ op = "idle"
    /\ op' = "find_career_page"
    /\ \E company_name \in LocatorCompanies :
        fc_args' = [fc_args EXCEPT !.company_name = company_name]
    /\ fc_method' = 1
    /\ fc_query' = 1
    /\ fc_results' = None
    /\ fc_pattern' = 1
    /\ UNCHANGED <<urlVars, backend_calls, fc_request, fc_probes, fc_trail, fc_result, agVars,
                   exVars>>

\* The requests of the running method for url (the HEAD request of a probe,
\* the GET requests of the content check and of the validation), which the
\* site answers or not, with the timeout in seconds of the first of them
Requested(url, site, timeout) ==
    [method |-> METHODS[fc_method], url |-> url, up |-> site.up, timeout |-> timeout]

\* A loop that returns None as soon as a method's URL fails the validation
MethodReturned_stops(url, valid) ==
    /\ fc_trail' = Append(fc_trail, [method |-> METHODS[fc_method], url |-> url,
                                     valid |-> valid])
    /\ fc_query' = 1
    /\ fc_results' = None
    /\ fc_pattern' = 1
    /\ IF url # None /\ valid
       THEN /\ op' = "find_career_page returned"
            /\ fc_result' = url
            /\ fc_method' = fc_method
       ELSE IF url # None \/ fc_method = Len(METHODS)
       THEN /\ op' = "find_career_page returned"
            /\ fc_result' = None
            /\ fc_method' = fc_method
       ELSE /\ op' = op
            /\ fc_result' = fc_result
            /\ fc_method' = fc_method + 1

\* The loop body of find_career_page after `url = method(...)`: the URL is
\* validated, and either returned or the next method runs; after the last
\* method None is returned
MethodReturned(url, valid) ==
    /\ fc_trail' = Append(fc_trail, [method |-> METHODS[fc_method], url |-> url,
                                     valid |-> valid])
    /\ fc_query' = 1
    /\ fc_results' = None
    /\ fc_pattern' = 1
    /\ IF url # None /\ valid
       THEN /\ op' = "find_career_page returned"
            /\ fc_result' = url
            /\ fc_method' = fc_method
       ELSE IF fc_method = Len(METHODS)
       THEN /\ op' = "find_career_page returned"
            /\ fc_result' = None
            /\ fc_method' = fc_method
       ELSE /\ op' = op
            /\ fc_result' = fc_result
            /\ fc_method' = fc_method + 1

\* _google_search, after a result was passed over or a query had no results:
\* the next result, the next query, or `return None`
NextResult(rest) ==
    IF rest # <<>>
    THEN /\ fc_results' = rest
         /\ UNCHANGED <<op, fc_method, fc_query, fc_pattern, fc_trail, fc_result>>
    ELSE IF fc_query < Len(SEARCH_QUERIES(fc_args.company_name))
    THEN /\ fc_results' = None
         /\ fc_query' = fc_query + 1
         /\ UNCHANGED <<op, fc_method, fc_pattern, fc_trail, fc_result>>
    ELSE MethodReturned(None, FALSE)

\* _google_search: search(query, num_results=5, ...) returns its results, or
\* raises (caught by `except Exception`, which returns None)
GoogleSearch ==
    /\ op = "find_career_page"
    /\ METHODS[fc_method] = "_google_search"
    /\ fc_results = None
    /\ \/ MethodReturned(None, FALSE)
       \/ \E results \in SeqUpTo(SearchResults, MaxResults) : NextResult(results)
    /\ UNCHANGED <<urlVars, backend_calls, fc_args, fc_request, fc_probes, agVars, exVars>>

\* _google_search: the next result of the current query is evaluated; a URL the
\* method returns is validated by find_career_page
GoogleResult ==
    /\ op = "find_career_page"
    /\ METHODS[fc_method] = "_google_search"
    /\ fc_results # None
    /\ fc_results # <<>>
    /\ LET url == Head(fc_results)
           rest == Tail(fc_results)
       IN  IF IsSocial(url)
           THEN NextResult(rest) /\ UNCHANGED fc_request
           ELSE IF HasUrlKeyword(url)
           THEN \E site \in Answers(url) :
                   /\ fc_request' = Requested(url, site, 10)
                   /\ MethodReturned(url, validate_career_page(site))
           ELSE IF OnCompanyDomain(fc_args.company_name, url)
           THEN \E site \in Answers(url) :
                   /\ fc_request' = Requested(url, site, 10)
                   /\ IF is_career_page_content(site)
                      THEN MethodReturned(url, validate_career_page(site))
                      ELSE NextResult(rest)
           ELSE NextResult(rest) /\ UNCHANGED fc_request
    /\ UNCHANGED <<urlVars, backend_calls, fc_args, fc_probes, agVars, exVars>>

\* _direct_url_construction: the next pattern is tried with requests.head; a
\* URL the method returns is validated by find_career_page
DirectProbe ==
    /\ op = "find_career_page"
    /\ METHODS[fc_method] = "_direct_url_construction"
    /\ LET url == DirectUrl(fc_args.company_name, fc_pattern)
       IN  \E site \in Answers(url) :
               /\ fc_request' = Requested(url, site, 5)
               /\ fc_probes' = Append(fc_probes, "request")
               /\ IF HeadOk(site)
                  THEN MethodReturned(url, validate_career_page(site))
                  ELSE IF fc_pattern < Len(DIRECT_PATTERNS)
                  THEN /\ fc_pattern' = fc_pattern + 1
                       /\ UNCHANGED <<op, fc_method, fc_query, fc_results, fc_trail,
                                      fc_result>>
                  ELSE MethodReturned(None, FALSE)
    /\ UNCHANGED <<urlVars, backend_calls, fc_args, agVars, exVars>>

\* _llm_based_search: the model is asked for the URL; any exception, the
\* ValueError of query_model included, is caught and None returned
LlmBasedSearch ==
    /\ op = "find_career_page"
    /\ METHODS[fc_method] = "_llm_based_search"
    /\ \E model_name \in ModelNames, api_key \in ApiKeys :
        LET reply == query_model(model_name, api_key)
            url == Strip(reply.text)
        IN  /\ fc_args' = [fc_args EXCEPT !.model_name = model_name, !.api_key = api_key]
            /\ backend_calls' = LogBackend(backend_calls, model_name, reply)
            /\ IF reply.raised # ""
               THEN MethodReturned(None, FALSE) /\ UNCHANGED fc_request
               ELSE IF StartsWith(url, <<"h", "t", "t", "p", ":", "/", "/">>) \/ StartsWith(url, <<"h", "t", "t", "p", "s", ":", "/", "/">>)
               THEN \E site \in Answers(url) :
                       /\ fc_request' = Requested(url, site, 5)
                       /\ IF HeadOk(site)
                          THEN MethodReturned(url, validate_career_page(site))
                          ELSE MethodReturned(None, FALSE)
               ELSE MethodReturned(None, FALSE) /\ UNCHANGED fc_request
    /\ UNCHANGED <<urlVars, fc_probes, agVars, exVars>>

(***************************************************************************)
(* Actions: agent.JobSearchAgent                                           *)
(***************************************************************************)
\* JobSearchAgent(model_type): LLMHandler.__init__ initializes the model (the
\* ping of the Ollama server has no effect on the handler); a ValueError
\* leaves no agent
NewAgent ==
    /\ op = "idle"
    /\ \E model_type \in AgentModelTypes, pipeline_loads \in BOOLEAN :
        LET init == initialize_model(model_type, pipeline_loads)
        IN  IF init.raised # ""
            THEN /\ op' = "JobSearchAgent raised"
                 /\ UNCHANGED <<ag_pc, llm_handler>>
            ELSE /\ op' = "JobSearchAgent"
                 /\ ag_pc' = "ready"
                 /\ llm_handler' = [model_type |-> init.model_type, model |-> init.model,
                                     calls |-> init.calls]
    /\ status_messages' = <<>>
    /\ UNCHANGED <<urlVars, backend_calls, fcVars, exVars, ag_args, refined_keywords, career_url,
                   ag_idx, ag_events, ag_request, ag_again, ag_jobs, ag_result>>

\* What the backend of generate_text may do with a prompt whose possible
\* answers are replies
Generated(replies) ==
    {[backend |-> "text", text |-> generate_text(llm_handler.model_type, "text", text)] :
         text \in replies}
        \cup {[backend |-> b, text |-> generate_text(llm_handler.model_type, b, <<>>)] :
                  b \in {"status", "exception"}}

\* search_jobs without the assignment of line 57: the messages of the call
\* follow those of the calls before
StartSearch_appending ==
    /\ \E company_name \in AgentCompanies, keywords \in AgentKeywords,
          generated \in Generated(RefineReplies) :
        LET refined == refine_search_query(keywords, generated.text)
        IN  /\ ag_events' = <<ModelCall("query_refiner", generated)>>
            /\ ag_args' = [company_name |-> company_name, keywords |-> keywords]
            /\ refined_keywords' = refined
            /\ status_messages' = status_messages \o <<<<"S", "t", "a", "r", "t", "i", "n", "g", " ", "j", "o", "b", " ", "s", "e", "a", "r", "c", "h", " ", "f", "o", "r", " ">> \o company_name
                                        \o <<" ", "w", "i", "t", "h", " ", "k", "e", "y", "w", "o", "r", "d", "s", ":", " ">> \o keywords, <<"R", "e", "f", "i", "n", "i", "n", "g", " ", "s", "e", "a", "r", "c", "h", " ", "q", "u", "e", "r", "y", ".", ".", ".">>,
                                    <<"R", "e", "f", "i", "n", "e", "d", " ", "q", "u", "e", "r", "y", ":", " ">> \o refined>>
    /\ ag_pc' = "refined"
    /\ career_url' = None
    /\ ag_idx' = 0
    /\ ag_request' = [strategy |-> "", up |-> FALSE]
    /\ ag_jobs' = Unbound
    /\ ag_result' = NoResult
    /\ UNCHANGED <<op, urlVars, backend_calls, fcVars, exVars, llm_handler>>

\* JobSearchAgent.search_jobs, lines 57-63: the status messages are reset and
\* the query refined
StartSearch ==
    /\ \E company_name \in AgentCompanies, keywords \in AgentKeywords,
          generated \in Generated(RefineReplies) :
        LET refined == refine_search_query(keywords, generated.text)
        IN  /\ ag_events' = <<ModelCall("query_refiner", generated)>>
            /\ ag_args' = [company_name |-> company_name, keywords |-> keywords]
            /\ refined_keywords' = refined
            /\ status_messages' = <<<<"S", "t", "a", "r", "t", "i", "n", "g", " ", "j", "o", "b", " ", "s", "e", "a", "r", "c", "h", " ", "f", "o", "r", " ">> \o company_name
                                        \o <<" ", "w", "i", "t", "h", " ", "k", "e", "y", "w", "o", "r", "d", "s", ":", " ">> \o keywords, <<"R", "e", "f", "i", "n", "i", "n", "g", " ", "s", "e", "a", "r", "c", "h", " ", "q", "u", "e", "r", "y", ".", ".", ".">>,
                                    <<"R", "e", "f", "i", "n", "e", "d", " ", "q", "u", "e", "r", "y", ":", " ">> \o refined>>
    /\ ag_pc' = "refined"
    /\ career_url' = None
    /\ ag_idx' = 0
    /\ ag_request' = [strategy |-> "", up |-> FALSE]
    /\ ag_jobs' = Unbound
    /\ ag_result' = NoResult
    /\ UNCHANGED <<op, urlVars, backend_calls, fcVars, exVars, llm_handler>>

\* The first call of search_jobs on an agent
AgentRefine ==
    /\ op = "JobSearchAgent"
    /\ ag_pc = "ready"
    /\ StartSearch
    /\ ag_again' = FALSE

\* A later call of search_jobs on the same agent, after a call returned or raised
AgentRefineAgain ==
    /\ op = "JobSearchAgent"
    /\ ag_pc \in {"returned", "raised"}
    /\ StartSearch
    /\ ag_again' = TRUE

\* JobSearchAgent.search_jobs, lines 66-77: the model suggests a URL, which is
\* fetched; any status but 200 sends the agent to the URL patterns
AgentSuggestUrl ==
    /\ op = "JobSearchAgent"
    /\ ag_pc = "refined"
    /\ \E generated \in Generated(UrlReplies) :
        LET url == find_career_url(generated.text)
        IN  \E site \in AgentAnswers(url) :
            LET ok == Is200(fetch_page(site))
            IN  /\ career_url' = url
                /\ ag_request' = [strategy |-> "model", up |-> site.up]
                /\ ag_events' = ag_events \o <<ModelCall("url_finder", generated),
                                               Request("model", url, 5, site)>>
                /\ IF ok
                   THEN /\ ag_pc' = "found"
                        /\ ag_idx' = ag_idx
                        /\ status_messages' = status_messages \o
                               <<<<"F", "i", "n", "d", "i", "n", "g", " ", "c", "a", "r", "e", "e", "r", " ", "p", "a", "g", "e", " ", "f", "o", "r", " ">> \o ag_args.company_name \o <<".", ".", ".">>,
                                 <<"L", "L", "M", " ", "s", "u", "g", "g", "e", "s", "t", "e", "d", " ", "U", "R", "L", ":", " ">> \o url>>
                   ELSE /\ ag_pc' = "testing"
                        /\ ag_idx' = 1
                        /\ status_messages' = status_messages \o
                               <<<<"F", "i", "n", "d", "i", "n", "g", " ", "c", "a", "r", "e", "e", "r", " ", "p", "a", "g", "e", " ", "f", "o", "r", " ">> \o ag_args.company_name \o <<".", ".", ".">>,
                                 <<"L", "L", "M", " ", "s", "u", "g", "g", "e", "s", "t", "e", "d", " ", "U", "R", "L", ":", " ">> \o url,
                                 <<"S", "u", "g", "g", "e", "s", "t", "e", "d", " ", "U", "R", "L", " ", "n", "o", "t", " ", "a", "c", "c", "e", "s", "s", "i", "b", "l", "e", ",", " ", "t", "r", "y", "i", "n", "g", " ", "a", "l", "t", "e", "r", "n", "a", "t", "i", "v", "e", " ", "U", "R", "L", "s", ".", ".", ".">>>>
    /\ UNCHANGED <<op, urlVars, backend_calls, fcVars, exVars, llm_handler, ag_args, ag_again,
                   refined_keywords, ag_jobs, ag_result>>

\* WebScraper.test_career_urls, one turn of its loop: the next potential URL
\* is fetched and returned on status 200; else the scraper sleeps and goes on.
\* After the last URL it returns None, and search_jobs (lines 80-82) reports
\* that no career page was found
AgentTestUrl ==
    /\ op = "JobSearchAgent"
    /\ ag_pc = "testing"
    /\ LET potential_urls == construct_career_urls(ag_args.company_name)
           url == potential_urls[ag_idx]
       IN  \E site \in AgentAnswers(url) :
           LET ok == Is200(fetch_page(site))
           IN  /\ ag_request' = [strategy |-> "patterns", up |-> site.up]
               /\ IF ok
                  THEN /\ ag_events' = Append(ag_events, Request("patterns", url, 5, site))
                       /\ career_url' = url
                       /\ ag_pc' = "found"
                       /\ UNCHANGED <<ag_idx, status_messages, ag_result>>
                  ELSE /\ ag_events' = ag_events \o <<Request("patterns", url, 5, site), Sleep>>
                       /\ IF ag_idx < Len(potential_urls)
                          THEN /\ ag_idx' = ag_idx + 1
                               /\ UNCHANGED <<ag_pc, career_url, status_messages, ag_result>>
                          ELSE /\ career_url' = None
                               /\ status_messages' = Append(status_messages,
                                      <<"C", "o", "u", "l", "d", " ", "n", "o", "t", " ", "f", "i", "n", "d", " ", "a", " ", "w", "o", "r", "k", "i", "n", "g", " ", "c", "a", "r", "e", "e", "r", " ", "p", "a", "g", "e", ".", " ", "P", "l", "e", "a", "s", "e", " ", "c", "h", "e", "c", "k", " ", "t", "h", "e", " ", "c", "o", "m", "p", "a", "n", "y", " ", "n", "a", "m", "e", " ", "o", "r", " ", "t", "r", "y", " ", "a", " ", "d", "i", "f", "f", "e", "r", "e", "n", "t", " ", "a", "p", "p", "r", "o", "a", "c", "h", ".">>)
                               /\ ag_result' = Returned(<<>>)
                               /\ ag_pc' = "returned"
                               /\ UNCHANGED ag_idx
    /\ UNCHANGED <<op, urlVars, backend_calls, fcVars, exVars, llm_handler, ag_args, ag_again,
                   refined_keywords, ag_jobs>>

\* WebScraper.search_jobs(url, keywords, llm_handler), given the site's answer
\* and generate_text's return value: what it returns or raises
scraper_search_jobs(url, site, generated) ==
    LET fetched == fetch_page(site)
    IN  IF ~Is200(fetched) \/ fetched.none \/ fetched.content = EmptyPage   \* `not content`
        THEN [raised |-> "", asked |-> FALSE, jobs |-> PyList(<<>>)]
        ELSE IF ~CompanyOfUrl(url).ok
        THEN [raised |-> "IndexError", asked |-> FALSE, jobs |-> Unbound]
        ELSE [raised |-> "", asked |-> TRUE, jobs |-> extract_jobs_from_html(generated)]

\* search_jobs without its `if not jobs` test: an empty list is ranked as well
RankJobs_unchecked(jobs) ==
    IF jobs.type # "list"
    THEN [raised |-> "AttributeError", found |-> FALSE, jobs |-> <<>>]
    ELSE [raised |-> "", found |-> TRUE,
          jobs |-> Truncate(SortJobs(jobs.items), MAX_JOBS_TO_DISPLAY)]

\* JobSearchAgent.search_jobs, lines 90-102, given what the scraper returned:
\* nothing found, or the jobs sorted by relevance and cut to the display limit
RankJobs(jobs) ==
    IF FalsyValue(jobs)
    THEN [raised |-> "", found |-> FALSE, jobs |-> <<>>]
    ELSE IF jobs.type # "list"                              \* no attribute 'sort'
    THEN [raised |-> "AttributeError", found |-> FALSE, jobs |-> <<>>]
    ELSE IF \E i \in 1..Len(jobs.items) : jobs.items[i].type # "dict"   \* no attribute 'get'
    THEN [raised |-> "AttributeError", found |-> FALSE, jobs |-> <<>>]
    ELSE [raised |-> "", found |-> TRUE,
          jobs |-> Truncate(SortJobs(jobs.items), MAX_JOBS_TO_DISPLAY)]

\* JobSearchAgent.search_jobs, lines 84-102: the career page is scraped with
\* the model, and the jobs are ranked and returned
AgentScrape ==
    /\ op = "JobSearchAgent"
    /\ ag_pc = "found"
    /\ \E site \in AgentAnswers(career_url), generated \in Generated(JobsReplies) :
        LET scraped == scraper_search_jobs(career_url, site, generated.text)
            ranked == RankJobs(scraped.jobs)
            events == ag_events \o <<Request("scrape", career_url, 10, site)>>
                          \o (IF scraped.asked THEN <<ModelCall("job_extractor", generated)>> ELSE <<>>)
            messages == status_messages \o <<<<"F", "o", "u", "n", "d", " ", "w", "o", "r", "k", "i", "n", "g", " ", "c", "a", "r", "e", "e", "r", " ", "p", "a", "g", "e", ":", " ">> \o career_url,
                                            <<"S", "e", "a", "r", "c", "h", "i", "n", "g", " ", "f", "o", "r", " ", "j", "o", "b", "s", " ", "m", "a", "t", "c", "h", "i", "n", "g", " ", "y", "o", "u", "r", " ", "k", "e", "y", "w", "o", "r", "d", "s", ".", ".", ".">>>>
        IN  /\ ag_events' = events
            /\ ag_request' = [strategy |-> "scrape", up |-> site.up]
            /\ ag_jobs' = scraped.jobs
            /\ IF scraped.raised # ""
               THEN /\ ag_result' = Raised(scraped.raised)
                    /\ status_messages' = messages
                    /\ ag_pc' = "raised"
               ELSE IF ranked.raised # ""
               THEN /\ ag_result' = Raised(ranked.raised)
                    /\ status_messages' = messages
                    /\ ag_pc' = "raised"
               ELSE IF ~ranked.found
               THEN /\ ag_result' = Returned(<<>>)
                    /\ status_messages' = Append(messages,
                               <<"N", "o", " ", "m", "a", "t", "c", "h", "i", "n", "g", " ", "j", "o", "b", "s", " ", "f", "o", "u", "n", "d", ".", " ", "T", "r", "y", " ", "d", "i", "f", "f", "e", "r", "e", "n", "t", " ", "k", "e", "y", "w", "o", "r", "d", "s", " ", "o", "r", " ", "a", " ", "d", "i", "f", "f", "e", "r", "e", "n", "t", " ", "c", "o", "m", "p", "a", "n", "y", ".">>)
                    /\ ag_pc' = "returned"
               ELSE /\ ag_result' = Returned(ranked.jobs)
                    /\ status_messages' = Append(messages,
                               <<"F", "o", "u", "n", "d", " ">> \o IntText(Len(ranked.jobs)) \o <<" ", "r", "e", "l", "e", "v", "a", "n", "t", " ", "j", "o", "b", "(", "s", ")", ".">>)
                    /\ ag_pc' = "returned"
    /\ UNCHANGED <<op, urlVars, backend_calls, fcVars, exVars, llm_handler, ag_args, ag_again,
                   refined_keywords, career_url, ag_idx>>

NextAgent ==
    \/ NewAgent
    \/ AgentRefine
    \/ AgentSuggestUrl
    \/ AgentTestUrl
    \/ AgentScrape

\* The agent pipeline: one agent and its first call of search_jobs
SpecAgent == Init /\ [][NextAgent]_vars

\* The agent pipeline: one agent and any number of calls of search_jobs
SpecAgentCalls == Init /\ [][NextAgent \/ AgentRefineAgain]_vars

(***************************************************************************)
(* Actions: job_extractor.extract_jobs                                     *)
(***************************************************************************)
\* What the career page may answer to the request of extract_jobs
ExtractAnswers(url) == IF Fetchable(url) THEN ExtractSiteKinds ELSE {Down}

\* What a call of query_model may do: what the source's query_model does, or,
\* where it enters a backend query function, what that function may do in
\* place of its demonstration reply: return another text, or raise
Outcomes(model_name, api_key) ==
    LET reply == query_model(model_name, api_key)
    IN  IF reply.raised # "" THEN {[reply |-> reply, stub |-> FALSE]}
        ELSE {[reply |-> reply, stub |-> FALSE]}
                 \cup {[reply |-> [reply EXCEPT !.text = t], stub |-> TRUE] : t \in StubTexts}
                 \cup {[reply |-> [reply EXCEPT !.raised = "RuntimeError", !.text = <<>>],
                        stub |-> TRUE]}

\* A call of query_model by fn for the listing at index i, and what it did
QueryModel(fn, i, reply) == [fn |-> fn, listing |-> i, raised |-> reply.raised, text |-> reply.text]

\* The arguments of the running call with model_name and api_key drawn, if
\* they were not read before
ArgsRead ==
    IF ex_args.model_name # None THEN {ex_args}
    ELSE {[ex_args EXCEPT !.model_name = m, !.api_key = k] :
              m \in ExtractModels, k \in ExtractKeys}

\* extract_jobs returns
ExtractReturn(jobs) ==
    /\ op' = "extract_jobs returned"
    /\ ex_pc' = ""
    /\ ex_result' = Returned(jobs)

\* A call of extract_jobs that does not test whether there are raw listings
\* and reads the first
CallExtractJobs_unchecked ==
    /\ op = "idle"
    /\ \E url \in ExtractUrls, keywords \in ExtractKeywords :
        /\ ex_args' = [ex_args EXCEPT !.career_page_url = url, !.keywords = keywords]
        /\ \E site \in ExtractAnswers(url) :
            /\ ex_page' = site
            /\ IF ~site.up \/ site.status >= 400
               THEN /\ ExtractReturn(<<>>)
                    /\ UNCHANGED <<raw_listings, ex_i>>
               ELSE IF _extract_raw_listings(site.page, url) = <<>>
               THEN /\ op' = "extract_jobs raised"
                    /\ ex_pc' = ""
                    /\ ex_result' = Raised("IndexError")
                    /\ UNCHANGED <<raw_listings, ex_i>>
               ELSE /\ raw_listings' = _extract_raw_listings(site.page, url)
                    /\ op' = "extract_jobs"
                    /\ ex_pc' = "_process_listings"
                    /\ ex_i' = 1
                    /\ UNCHANGED ex_result
    /\ UNCHANGED <<urlVars, backend_calls, fcVars, agVars, structured_listings,
                   filtered_listings, ex_calls, ex_stubbed, ex_exported>>

\* A call of extract_jobs, lines 33-52: the page is fetched and its raw
\* listings are extracted; a failed request, or no raw listing, returns []
CallExtractJobs ==
    /\ op = "idle"
    /\ \E url \in ExtractUrls, keywords \in ExtractKeywords :
        /\ ex_args' = [ex_args EXCEPT !.career_page_url = url, !.keywords = keywords]
        /\ \E site \in ExtractAnswers(url) :
            /\ ex_page' = site
            /\ IF ~site.up \/ site.status >= 400                 \* requests.RequestException
               THEN /\ ExtractReturn(<<>>)
                    /\ UNCHANGED <<raw_listings, ex_i>>
               ELSE IF _extract_raw_listings(site.page, url) = <<>>
               THEN /\ ExtractReturn(<<>>)
                    /\ UNCHANGED <<raw_listings, ex_i>>
               ELSE /\ raw_listings' = _extract_raw_listings(site.page, url)
                    /\ op' = "extract_jobs"
                    /\ ex_pc' = "_process_listings"
                    /\ ex_i' = 1
                    /\ UNCHANGED ex_result
    /\ UNCHANGED <<urlVars, backend_calls, fcVars, agVars, structured_listings,
                   filtered_listings, ex_calls, ex_stubbed, ex_exported>>

\* _process_listings has returned structured: extract_jobs, lines 58-64,
\* filters it if there are keywords, and returns
Processed(structured) ==
    IF ex_args.keywords = <<>>
    THEN /\ ExtractReturn(structured)
         /\ UNCHANGED ex_i
    ELSE IF structured = <<>>
    THEN /\ ExtractReturn(<<>>)
         /\ UNCHANGED ex_i
    ELSE /\ op' = op
         /\ ex_pc' = "_filter_by_keywords"
         /\ ex_i' = 1
         /\ UNCHANGED ex_result

\* One turn of the loop of _process_listings
ProcessStep ==
    /\ op = "extract_jobs"
    /\ ex_pc = "_process_listings"
    /\ LET raw_listing == raw_listings[ex_i]
       IN  IF ~ProcessAsks(raw_listing)
           THEN /\ structured_listings' = structured_listings
                /\ UNCHANGED <<ex_args, backend_calls, ex_calls, ex_stubbed>>
                /\ IF ex_i < Len(raw_listings)
                   THEN /\ ex_i' = ex_i + 1
                        /\ UNCHANGED <<op, ex_pc, ex_result>>
                   ELSE Processed(structured_listings)
           ELSE \E args \in ArgsRead :
                \E outcome \in Outcomes(args.model_name, args.api_key) :
                    /\ ex_args' = args
                    /\ backend_calls' = LogBackend(backend_calls, args.model_name,
                                                   outcome.reply)
                    /\ ex_calls' = Append(ex_calls, QueryModel(ex_pc, ex_i, outcome.reply))
                    /\ ex_stubbed' = (ex_stubbed \/ outcome.stub)
                    /\ structured_listings' =
                           structured_listings \o ProcessListing(raw_listing, outcome.reply)
                    /\ IF ex_i < Len(raw_listings)
                       THEN /\ ex_i' = ex_i + 1
                            /\ UNCHANGED <<op, ex_pc, ex_result>>
                       ELSE Processed(structured_listings')
    /\ UNCHANGED <<urlVars, fcVars, agVars, ex_page, raw_listings, filtered_listings,
                   ex_exported>>

\* One turn of the loop of _filter_by_keywords; after the last, extract_jobs
\* returns the filtered listings. A KeyError leaves extract_jobs
FilterStep ==
    /\ op = "extract_jobs"
    /\ ex_pc = "_filter_by_keywords"
    /\ LET listing == structured_listings[ex_i]
           asks == FilterAsks(listing, ex_args.keywords)
       IN  \E args \in (IF asks THEN ArgsRead ELSE {ex_args}) :
           \E outcome \in (IF asks THEN Outcomes(args.model_name, args.api_key)
                           ELSE {[reply |-> ValueErrorReply("not asked"), stub |-> FALSE]}) :
               LET step == FilterListing(listing, ex_args.keywords, outcome.reply)
               IN  /\ ex_args' = args
                   /\ backend_calls' = IF asks
                                       THEN LogBackend(backend_calls, args.model_name,
                                                       outcome.reply)
                                       ELSE backend_calls
                   /\ ex_calls' = IF asks
                                  THEN Append(ex_calls, QueryModel(ex_pc, ex_i, outcome.reply))
                                  ELSE ex_calls
                   /\ ex_stubbed' = (ex_stubbed \/ outcome.stub)
                   /\ IF step.raised # ""
                      THEN /\ op' = "extract_jobs raised"
                           /\ ex_pc' = ""
                           /\ ex_result' = Raised(step.raised)
                           /\ UNCHANGED <<ex_i, filtered_listings>>
                      ELSE /\ filtered_listings' = filtered_listings \o step.kept
                           /\ IF ex_i < Len(structured_listings)
                              THEN /\ ex_i' = ex_i + 1
                                   /\ UNCHANGED <<op, ex_pc, ex_result>>
                              ELSE /\ ExtractReturn(filtered_listings \o step.kept)
                                   /\ UNCHANGED ex_i
    /\ UNCHANGED <<urlVars, fcVars, agVars, ex_page, raw_listings, structured_listings,
                   ex_exported>>

\* A call of utils.format_job_listing_for_export with the listings that
\* extract_jobs returned
CallFormatForExport ==
    /\ op = "extract_jobs returned"
    /\ ex_exported = <<>>
    /\ ex_exported' = <<format_job_listing_for_export(ex_result.jobs)>>
    /\ UNCHANGED <<op, urlVars, backend_calls, fcVars, agVars, ex_args, ex_page, ex_pc, ex_i,
                   raw_listings, structured_listings, filtered_listings, ex_calls,
                   ex_stubbed, ex_result>>

NextExtract ==
    \/ CallExtractJobs
    \/ ProcessStep
    \/ FilterStep
    \/ CallFormatForExport

\* The listing extractor alone
SpecExtract == Init /\ [][NextExtract]_vars

NextFindCareerPage ==
    \/ CallFindCareerPage
    \/ GoogleSearch
    \/ GoogleResult
    \/ DirectProbe
    \/ LlmBasedSearch

\* The locator of search_engine.py alone
SpecFindCareerPage == Init /\ [][NextFindCareerPage]_vars

\* The two pipelines that locate a career page: find_career_page and the agent
SpecLocators == Init /\ [][NextFindCareerPage \/ NextAgent]_vars

\* URL-pattern generation alone
SpecUrls == Init /\ [][CallConstructCareerUrls]_vars

Next ==
    \/ CallConstructCareerUrls
    \/ CallBasicJobUrl
    \/ NextFindCareerPage
    \/ NextAgent
    \/ AgentRefineAgain
    \/ NextExtract

Spec == Init /\ [][Next]_vars

(***************************************************************************)
(* Properties                                                              *)
(***************************************************************************)
Last(s) == s[Len(s)]

\* The requests of the running search_jobs call that test a candidate URL: the
\* one for the model's suggestion and those for the pattern URLs
LocatingRequests ==
    SelectSeq(ag_events, LAMBDA e : e.ev = "request" /\ e.strategy \in {"model", "patterns"})

\* search_jobs is past locating the career page
Located == ag_pc \in {"found", "returned", "raised"}

\* The agent tests the model's URL first and pattern URLs after it, each only
\* after every earlier request failed, and takes the URL of the first request
\* that succeeds
AgentOrder ==
    LET r == LocatingRequests
    IN  /\ \A i \in 1..Len(r) :
              /\ r[i].strategy = (IF i = 1 THEN "model" ELSE "patterns")
              /\ i < Len(r) => ~r[i].ok
        /\ Located =>
              /\ r # <<>>
              /\ IF Last(r).ok THEN career_url = Last(r).url
                 ELSE career_url = None /\ Len(r) = 1 + Len(CAREER_PAGE_PATTERNS)

\* The methods find_career_page ran are the first of `order`, each ran only
\* after every earlier one gave no valid URL, and the URL returned is that of
\* the first method that gave a valid one (None after all of them failed)
LocatorOrder(order) ==
    /\ Len(fc_trail) <= Len(order)
    /\ \A i \in 1..Len(fc_trail) :
          /\ fc_trail[i].method = order[i]
          /\ i < Len(fc_trail) => ~(fc_trail[i].url # None /\ fc_trail[i].valid)
    /\ op = "find_career_page returned" =>
          /\ fc_trail # <<>>
          /\ IF Last(fc_trail).url # None /\ Last(fc_trail).valid
             THEN fc_result = Last(fc_trail).url
             ELSE fc_result = None /\ Len(fc_trail) = Len(order)

\* C1 (as amended): find_career_page tries the web search first, then the
\* direct URL patterns, then the model; the agent tries the model's URL and
\* then the pattern URLs, and has no web search. In both a later strategy runs
\* only after every earlier one failed, and the first success is the result.
C1_StrategyOrder ==
    /\ LocatorOrder(<<"_google_search", "_direct_url_construction", "_llm_based_search">>)
    /\ AgentOrder

\* C1 witness: the web search of find_career_page failed and a direct URL
\* pattern gave the result
C1_Witness ==
    /\ op = "find_career_page returned"
    /\ Len(fc_trail) = 2
    /\ fc_result # None
    /\ fc_result = fc_trail[2].url

\* C1 as stated: the strategies run in the order model, patterns, web search
C1_ModelPatternsSearch ==
    /\ LocatorOrder(<<"_llm_based_search", "_direct_url_construction", "_google_search">>)
    /\ AgentOrder

\* C2: extract_jobs with non-empty keywords never raises, whatever the model
\* does for a listing
C2_NeverRaises ==
    (ex_args.keywords # None /\ ex_args.keywords # <<>>) => op # "extract_jobs raised"

\* C3: a URL returned as the career page was fetched and job vocabulary found
\* in its page, by find_career_page and by the agent alike
C3_ReturnedUrlValidated ==
    /\ (op = "find_career_page returned" /\ fc_result # None) =>
           Last(fc_trail).url = fc_result /\ Last(fc_trail).valid
    /\ (Located /\ career_url # None) =>
           \E i \in 1..Len(ag_events) :
               /\ ag_events[i].ev = "request"
               /\ ag_events[i].url = career_url
               /\ ag_events[i].ok
               /\ ag_events[i].vocabulary

\* C4: a configuration error of query_model leaves find_career_page as an
\* exception
C4_ConfigurationErrorRaised ==
    (fc_args.model_name # None
        /\ query_model(fc_args.model_name, fc_args.api_key).raised = "ValueError")
    => op = "find_career_page raised"

\* C5: no backend query function of the hosted family is entered with a
\* missing credential
C5_NoBackendCallWithoutCredential ==
    \A i \in 1..Len(backend_calls) :
        backend_calls[i].fn = "_query_openai" => ~Falsy(backend_calls[i].api_key)

\* C6: construct_career_urls returns 9 URLs in template order, each lowercase,
\* without spaces and prefixed with "https://"
C6_NineHttpsUrls ==
    op = "construct_career_urls" =>
        /\ Len(cu_urls) = 9
        /\ \A i \in 1..Len(cu_urls) :
              /\ cu_urls[i] = <<"h", "t", "t", "p", "s", ":", "/", "/">> \o Format(CAREER_PAGE_PATTERNS[i],
                                                    RemoveChar(Lower(cu_company), " "))
              /\ Lower(cu_urls[i]) = cu_urls[i]
              /\ ~Contains(cu_urls[i], <<" ">>)

\* The fetcher has so far answered 200 to the N-th pattern URL and to no other
\* URL
FetcherServesOnly(N) ==
    LET potential_urls == construct_career_urls(ag_args.company_name)
    IN  \A i \in 1..Len(LocatingRequests) :
            LocatingRequests[i].ok <=> (LocatingRequests[i].url = potential_urls[N])

\* The pattern URLs 1..N were requested in this order, after the model's URL,
\* and no request followed
ProbedUpTo(N) ==
    LET potential_urls == construct_career_urls(ag_args.company_name)
    IN  /\ Len(LocatingRequests) = N + 1
        /\ \A k \in 1..N : LocatingRequests[k + 1].url = potential_urls[k]

\* C7 (as amended): with a fetcher that answers 200 to the N-th pattern URL
\* only, the agent takes the N-th pattern URL: after probing the patterns 1..N
\* in order, or, where the model suggested that very URL, after the one
\* request for the suggestion and without probing any pattern before it
C7_NthPatternUrl ==
    \A N \in 1..Len(CAREER_PAGE_PATTERNS) :
        (Located /\ FetcherServesOnly(N)) =>
            /\ career_url = construct_career_urls(ag_args.company_name)[N]
            /\ \/ ProbedUpTo(N)
               \/ /\ Len(LocatingRequests) = 1
                  /\ LocatingRequests[1].url = career_url

\* C7 witness: the model's URL and the first pattern URL failed, the second
\* pattern URL answered 200
C7_Witness ==
    /\ ag_pc = "found"
    /\ FetcherServesOnly(2)
    /\ ProbedUpTo(2)
    /\ career_url = construct_career_urls(ag_args.company_name)[2]

\* C7 as stated: with such a fetcher the agent takes the N-th pattern URL after
\* the patterns 1..N were probed in order
C7_ProbedInOrder ==
    \A N \in 1..Len(CAREER_PAGE_PATTERNS) :
        (Located /\ FetcherServesOnly(N)) =>
            /\ career_url = construct_career_urls(ag_args.company_name)[N]
            /\ ProbedUpTo(N)

\* C8: for the page with the one job-listing block, the keywords
\* "python, remote" and the demonstration reply of the huggingface backend,
\* extract_jobs returns one listing whose title contains "Python Engineer"
\* and whose text holds both keywords
C8_OnePythonEngineer ==
    (/\ op \in {"extract_jobs returned", "extract_jobs raised"}
     /\ raw_listings = _extract_raw_listings(PageListing, ex_args.career_page_url)
     /\ ex_args.keywords = <<"p", "y", "t", "h", "o", "n", ",", " ", "r", "e", "m", "o", "t", "e">>
     /\ ex_args.model_name # None
     /\ StartsWith(ex_args.model_name, <<"h", "u", "g", "g", "i", "n", "g", "f", "a", "c", "e", "/">>)
     /\ ~ex_stubbed)
    => /\ op = "extract_jobs returned"
       /\ Len(ex_result.jobs) = 1
       /\ Contains(ex_result.jobs[1].title, <<"P", "y", "t", "h", "o", "n", " ", "E", "n", "g", "i", "n", "e", "e", "r">>)
       /\ Contains(listing_text(ex_result.jobs[1]), <<"p", "y", "t", "h", "o", "n">>)
       /\ Contains(listing_text(ex_result.jobs[1]), <<"r", "e", "m", "o", "t", "e">>)

\* C9: a search that finds nothing returns an empty result and raises nothing:
\* find_career_page returns None after its last method failed; the agent, when
\* no URL answered or the scraper gave no job, returns [] with a closing status
\* message that says so, and raises only after the scraper gave it something
C9_NotFoundReported ==
    /\ (op = "find_career_page returned" /\ ~(Last(fc_trail).url # None /\ Last(fc_trail).valid))
           => fc_result = None
    /\ (Located /\ career_url = None) =>
           /\ ag_result = Returned(<<>>)
           /\ Last(status_messages) = <<"C", "o", "u", "l", "d", " ", "n", "o", "t", " ", "f", "i", "n", "d", " ", "a", " ", "w", "o", "r", "k", "i", "n", "g", " ", "c", "a", "r", "e", "e", "r", " ", "p", "a", "g", "e", ".", " ", "P", "l", "e", "a", "s", "e", " ", "c", "h", "e", "c", "k", " ", "t", "h", "e", " ", "c", "o", "m", "p", "a", "n", "y", " ", "n", "a", "m", "e", " ", "o", "r", " ", "t", "r", "y", " ", "a", " ", "d", "i", "f", "f", "e", "r", "e", "n", "t", " ", "a", "p", "p", "r", "o", "a", "c", "h", ".">>
    /\ (ag_pc \in {"returned", "raised"} /\ career_url # None /\ FalsyValue(ag_jobs)) =>
           /\ ag_result = Returned(<<>>)
           /\ Last(status_messages) = <<"N", "o", " ", "m", "a", "t", "c", "h", "i", "n", "g", " ", "j", "o", "b", "s", " ", "f", "o", "u", "n", "d", ".", " ", "T", "r", "y", " ", "d", "i", "f", "f", "e", "r", "e", "n", "t", " ", "k", "e", "y", "w", "o", "r", "d", "s", " ", "o", "r", " ", "a", " ", "d", "i", "f", "f", "e", "r", "e", "n", "t", " ", "c", "o", "m", "p", "a", "n", "y", ".">>
    /\ (ag_result.outcome = "returned" /\ ag_result.jobs = <<>>) =>
           (career_url = None \/ FalsyValue(ag_jobs))

\* C9 witness: the model's URL and all nine pattern URLs failed
C9_Witness ==
    /\ ag_pc = "returned"
    /\ career_url = None
    /\ Len(LocatingRequests) = 10
    /\ ag_result = Returned(<<>>)

\* a is b with some of its elements left out
IsSubsequence(a, b) ==
    \E f \in [1..Len(a) -> 1..Len(b)] :
        /\ \A i \in 1..Len(a) : a[i] = b[f[i]]
        /\ \A i, j \in 1..Len(a) : i < j => f[i] < f[j]

\* C10: what _filter_by_keywords has appended, and what it returns, is a
\* subsequence of the listings it was given: each kept listing is one of them,
\* unchanged, no more often than given, and in the given order
C10_FilterSubsequence ==
    /\ IsSubsequence(filtered_listings, structured_listings)
    /\ (op = "extract_jobs returned" /\ ex_args.keywords # <<>>) =>
           IsSubsequence(ex_result.jobs, structured_listings)

\* C10 witness: the filter returned some of its listings and dropped others
C10_Witness ==
    /\ op = "extract_jobs returned"
    /\ ex_args.keywords # <<>>
    /\ ex_result.jobs = filtered_listings
    /\ filtered_listings # <<>>
    /\ Len(filtered_listings) < Len(structured_listings)

\* A turn of the loop of _filter_by_keywords that is about to run, on a listing
\* that has the three keys the loop reads
FilterTurn ==
    /\ op = "extract_jobs"
    /\ ex_pc = "_filter_by_keywords"
    /\ ~MissingKey(structured_listings[ex_i])

\* The calls of query_model that fn made
CallsOf(fn) == SelectSeq(ex_calls, LAMBDA call : call.fn = fn)

\* At least one of the comma-separated keywords, trimmed, is a substring of
\* the listing's title, description and requirements joined by spaces, with
\* the case of both ignored
LiteralMatch(listing, keywords) ==
    \E i \in DOMAIN Split(keywords, ",") :
        Contains(Lower(Str(listing.title) \o <<" ">> \o Str(listing.description) \o <<" ">>
                           \o Str(listing.requirements)),
                 Lower(Strip(Split(keywords, ",")[i])))

C12_KeptOnExactYes ==
    [][(FilterTurn /\ ~LiteralMatch(structured_listings[ex_i], ex_args.keywords)) =>
          /\ Len(ex_calls') = Len(ex_calls) + 1
          /\ IF Last(ex_calls').raised = "" /\ Lower(Strip(Last(ex_calls').text)) = <<"y", "e", "s">>
             THEN filtered_listings' = Append(filtered_listings, structured_listings[ex_i])
             ELSE filtered_listings' = filtered_listings]_vars

\* The filter returned after it asked about two listings: the answer " Yes\n"
\* kept one, the answer "Yes." dropped the other
C12_Witness ==
    /\ op = "extract_jobs returned"
    /\ Len(ex_result.jobs) = 1
    /\ Len(structured_listings) = 2
    /\ \E c, d \in DOMAIN ex_calls :
           /\ ex_calls[c].fn = "_filter_by_keywords"
           /\ ex_calls[d].fn = "_filter_by_keywords"
           /\ ex_calls[c].text = <<" ", "Y", "e", "s", "\n">>
           /\ ex_calls[d].text = <<"Y", "e", "s", ".">>
           /\ ex_result.jobs[1] = structured_listings[ex_calls[c].listing]

\* C13: when query_model raises in a turn of the filter's loop, the filter
\* does not raise and drops that listing alone: the loop goes on to the next
\* listing, or, after the last, extract_jobs returns the listings kept so far
C13_ModelErrorDropsOne ==
    [][(FilterTurn /\ Len(ex_calls') = Len(ex_calls) + 1 /\ Last(ex_calls').raised # "") =>
          /\ filtered_listings' = filtered_listings
          /\ IF ex_i < Len(structured_listings)
             THEN /\ op' = "extract_jobs"
                  /\ ex_pc' = "_filter_by_keywords"
                  /\ ex_i' = ex_i + 1
             ELSE /\ op' = "extract_jobs returned"
                  /\ ex_result' = Returned(filtered_listings)]_vars

\* query_model raised for the first listing, and the filter went on and kept
\* the second
C13_Witness ==
    /\ op = "extract_jobs returned"
    /\ Len(structured_listings) = 2
    /\ ex_result.jobs = <<structured_listings[2]>>
    /\ \E c \in DOMAIN ex_calls :
           /\ ex_calls[c].fn = "_filter_by_keywords"
           /\ ex_calls[c].listing = 1
           /\ ex_calls[c].raised # ""

\* The indexes of the raw listings that _process_listings is past and whose
\* text has at least 20 characters
LongEnough ==
    SelectSeq([i \in 1..(IF ex_pc = "_process_listings" THEN ex_i - 1 ELSE Len(raw_listings))
                  |-> i],
              LAMBDA i : Len(raw_listings[i].content) >= 20)

\* C14: _process_listings asks the model about the raw listings with at least
\* 20 characters of text and about no other, and appends one structured
\* listing for each of them and none for a shorter one; without keywords
\* extract_jobs returns exactly those listings
C14_MinimumContent ==
    /\ [c \in DOMAIN CallsOf("_process_listings") |-> CallsOf("_process_listings")[c].listing]
           = LongEnough
    /\ Len(structured_listings) = Len(LongEnough)
    /\ (op = "extract_jobs returned" /\ ex_args.keywords = <<>>) =>
           ex_result.jobs = structured_listings

\* Of three raw listings with 19, 20 and 21 characters, the last two were
\* returned
C14_Witness ==
    /\ op = "extract_jobs returned"
    /\ ex_args.keywords = <<>>
    /\ [i \in DOMAIN raw_listings |-> Len(raw_listings[i].content)] = <<19, 20, 21>>
    /\ Len(ex_result.jobs) = 2
    /\ \A k \in 1..2 : Contains(Str(ex_result.jobs[k].description), raw_listings[k + 1].content)

\* extract_jobs was called and its request was answered with a document
Parsed == op # "idle" /\ ex_page.up /\ ex_page.status < 400

\* No selector of common_selectors selects an element of the document
NoneSelected(soup) == \A i \in DOMAIN common_selectors : Select(soup, common_selectors[i]) = <<>>

Candidates(soup) ==
    IF ~NoneSelected(soup)
    THEN Select(soup, common_selectors[
             CHOOSE i \in DOMAIN common_selectors :
                 /\ Select(soup, common_selectors[i]) # <<>>
                 /\ \A j \in 1..(i - 1) : Select(soup, common_selectors[j]) = <<>>])
    ELSE IF TableRows(job_tables(soup)) # <<>> THEN TableRows(job_tables(soup))
    ELSE [i \in DOMAIN _find_job_listing_links(soup) |->
             ParentOf(_find_job_listing_links(soup)[i])]

\* C16: the raw listings of a page are those of the elements of one strategy
\* alone: of the first selector with matches, else of the rows of the job
\* tables after each header row, else of the parents of the job links
C16_FirstNonEmptyWins ==
    Parsed =>
        raw_listings = [i \in DOMAIN Candidates(Soup(ex_page.page)) |->
                           RawListing(Candidates(Soup(ex_page.page))[i].node,
                                      ex_args.career_page_url)]

\* The page has an element of the second selector before one of the first, a
\* job table and a job link, and its one raw listing is that of the element
\* of the first selector
C16_Witness ==
    /\ Parsed
    /\ ex_page.page = PageMixed
    /\ Len(raw_listings) = 1
    /\ raw_listings[1].content = <<"P", "y", "t", "h", "o", "n", " ", "E", "n", "g", "i", "n", "e", "e", "r", ",", " ", "r", "e", "m", "o", "t", "e", " ", "o", "r", " ", "B", "e", "r", "l", "i", "n">>
    /\ Select(Soup(ex_page.page), common_selectors[2]) # <<>>
    /\ TableRows(job_tables(Soup(ex_page.page))) # <<>>
    /\ _find_job_listing_links(Soup(ex_page.page)) # <<>>

\* The calls of generate_text of the running search whose backend call failed
\* (it raised, or the server answered with a status other than 200)
FailedModelCalls == SelectSeq(ag_events, LAMBDA e : e.ev = "generate_text" /\ ~e.ok)

\* C17: a failed backend call makes generate_text return one of its error
\* texts, and each caller tells that text from an answer: the query refiner
\* keeps the user's keywords, the URL finder requests no URL made of it, and
\* the job extractor gives no jobs
C17_BackendErrorsInBand ==
    \A i \in DOMAIN FailedModelCalls :
        /\ FailedModelCalls[i].text \in {ERROR_GENERATING, ERROR_CONNECTING}
        /\ FailedModelCalls[i].strategy = "query_refiner" => refined_keywords = ag_args.keywords
        /\ FailedModelCalls[i].strategy = "url_finder" =>
               \A j \in DOMAIN ag_events :
                   ag_events[j].ev = "request" =>
                       ~Contains(ag_events[j].url, FailedModelCalls[i].text)
        /\ FailedModelCalls[i].strategy = "job_extractor" => ag_result = Returned(<<>>)

\* C18: a page request that the site does not answer raises nothing and
\* gives no result. find_career_page returns a URL only if the last request
\* for it was answered; extract_jobs returns the empty list; the agent, after
\* an unanswered request, is at the next pattern URL or has returned the
\* empty list for want of a career page, and after an unanswered career page
\* it has returned the empty list
C18_TransportFailuresCaught ==
    /\ op # "find_career_page raised"
    /\ fc_result # None => (fc_request.up /\ fc_request.url = fc_result)
    /\ (op \in {"extract_jobs", "extract_jobs returned", "extract_jobs raised"} /\ ~ex_page.up) =>
           (op = "extract_jobs returned" /\ ex_result = Returned(<<>>))
    /\ (ag_request.strategy \in {"model", "patterns"} /\ ~ag_request.up) =>
           \/ ag_pc = "testing" /\ ag_idx = Len(LocatingRequests)
           \/ ag_pc = "returned" /\ ag_result = Returned(<<>>) /\ career_url = None
    /\ (ag_request.strategy = "scrape" /\ ~ag_request.up) =>
           (ag_pc = "returned" /\ ag_result = Returned(<<>>))

\* The second pattern URL was found to work, and the career page did not
\* answer when scraped
C18_Witness ==
    /\ ag_pc = "returned"
    /\ Len(LocatingRequests) = 3
    /\ ag_request.strategy = "scrape"
    /\ ~ag_request.up
    /\ career_url = LocatingRequests[3].url
    /\ ag_result = Returned(<<>>)

\* C19: every network call of a search sets a timeout: the requests of
\* find_career_page, and the page requests and generate_text calls of the agent
C19_EveryCallHasTimeout ==
    /\ fc_request.method # "" => fc_request.timeout > 0
    /\ \A i \in DOMAIN ag_events :
           ag_events[i].ev \in {"request", "generate_text"} => ag_events[i].timeout > 0

\* C20: a call of search_jobs, the first or a later one on the agent, leaves
\* in the trail its own three opening messages and nothing of the trail
\* before, the first being 'Starting job search for ...'; every later step
\* of the call keeps the entries the trail has and adds entries after them
C20_TrailOfThisCall ==
    [][IF ag_pc' = "refined" /\ ag_pc \in {"ready", "returned", "raised"}
       THEN status_messages' =
                <<<<"S", "t", "a", "r", "t", "i", "n", "g", " ", "j", "o", "b", " ", "s", "e", "a", "r", "c", "h", " ", "f", "o", "r", " ">> \o ag_args'.company_name
                      \o <<" ", "w", "i", "t", "h", " ", "k", "e", "y", "w", "o", "r", "d", "s", ":", " ">> \o ag_args'.keywords,
                  <<"R", "e", "f", "i", "n", "i", "n", "g", " ", "s", "e", "a", "r", "c", "h", " ", "q", "u", "e", "r", "y", ".", ".", ".">>,
                  <<"R", "e", "f", "i", "n", "e", "d", " ", "q", "u", "e", "r", "y", ":", " ">> \o refined_keywords'>>
       ELSE ag_pc \in {"refined", "testing", "found"}
                => StartsWith(status_messages', status_messages)]_vars

\* A later call on an agent returned the eight messages of a search whose
\* suggested URL worked and whose page had no matching job, the first of them
\* the opening message of this call
C20_Witness ==
    /\ ag_again
    /\ ag_pc = "returned"
    /\ Len(status_messages) = 8
    /\ status_messages[1] = <<"S", "t", "a", "r", "t", "i", "n", "g", " ", "j", "o", "b", " ", "s", "e", "a", "r", "c", "h", " ", "f", "o", "r", " ">> \o ag_args.company_name
                                \o <<" ", "w", "i", "t", "h", " ", "k", "e", "y", "w", "o", "r", "d", "s", ":", " ">> \o ag_args.keywords
    /\ StartsWith(status_messages[8], <<"N", "o", " ", "m", "a", "t", "c", "h", "i", "n", "g", " ", "j", "o", "b", "s", " ", "f", "o", "u", "n", "d", ".">>)
    /\ ag_result = Returned(<<>>)

\* x.get('relevance_score', 0)
ScoreOf(x) == Get(x, "relevance_score", 0)

\* How many entries of jobs are the dict x
CountOf(jobs, x) == Cardinality({i \in DOMAIN jobs : jobs[i] = x})

\* C21: a search that returns listings returns them by relevance score, largest
\* first, a missing score counting as 0; they are the best of what the scraper
\* gave, at most MAX_JOBS_TO_DISPLAY of them, and the closing status message
\* reports their number
C21_SortedAndTruncated ==
    (ag_pc = "returned" /\ ag_result.jobs # <<>>) =>
        LET jobs == ag_result.jobs
            scraped == ag_jobs.items
        IN  /\ \A i \in 1..(Len(jobs) - 1) : ScoreOf(jobs[i]) >= ScoreOf(jobs[i + 1])
            /\ Len(jobs) <= MAX_JOBS_TO_DISPLAY
            /\ Len(jobs) = IF Len(scraped) < MAX_JOBS_TO_DISPLAY
                           THEN Len(scraped) ELSE MAX_JOBS_TO_DISPLAY
            /\ \A i \in DOMAIN jobs : CountOf(jobs, jobs[i]) <= CountOf(scraped, jobs[i])
            /\ \A i \in DOMAIN scraped :
                   CountOf(jobs, scraped[i]) < CountOf(scraped, scraped[i])
                       => ScoreOf(scraped[i]) <= ScoreOf(jobs[Len(jobs)])
            /\ Last(status_messages) = <<"F", "o", "u", "n", "d", " ">> \o IntText(Len(jobs)) \o <<" ", "r", "e", "l", "e", "v", "a", "n", "t", " ", "j", "o", "b", "(", "s", ")", ".">>

\* The scraper gave eleven listings, the first without a score and the last
\* with the score 3: ten are returned, those with the score 9 before the one
\* with the score 3, and the one without a score is left out
C21_Witness ==
    /\ ag_pc = "returned"
    /\ Len(ag_jobs.items) = 11
    /\ "relevance_score" \notin ag_jobs.items[1].keys
    /\ ScoreOf(ag_jobs.items[11]) = 3
    /\ Len(ag_result.jobs) = 10
    /\ ScoreOf(ag_result.jobs[1]) = 9
    /\ ag_result.jobs[10] = ag_jobs.items[11]
    /\ Last(status_messages) = <<"F", "o", "u", "n", "d", " ", "1", "0", " ", "r", "e", "l", "e", "v", "a", "n", "t", " ", "j", "o", "b", "(", "s", ")", ".">>

\* The listings extract_jobs returned, once they are formatted for export
Exported == Len(ex_exported) = 1

\* C22: every exported listing has the seven keys of the export; a field the
\* listing holds a text in is exported unchanged, and every exported value is
\* a text, a placeholder where the listing has none
C22_ExportRoundTrip ==
    Exported =>
        /\ Len(ex_exported[1].job_listings) = Len(ex_result.jobs)
        /\ \A i \in DOMAIN ex_result.jobs :
               LET listing == ex_result.jobs[i]
                   formatted_listing == ex_exported[1].job_listings[i]
               IN  /\ DOMAIN formatted_listing = DOMAIN EXPORT_KEYS
                   /\ \A key \in DOMAIN EXPORT_KEYS :
                          /\ (EXPORT_KEYS[key] \in listing.keys
                                 /\ listing[EXPORT_KEYS[key]] # None)
                                 => formatted_listing[key] = listing[EXPORT_KEYS[key]]
                          /\ formatted_listing[key] # None

\* C23: the URLs construct_career_urls returns are built from the company name
\* in lower case without its spaces, commas and periods: none holds a comma,
\* and none a period but those of its pattern
C23_SlugWithoutCommaOrPeriod ==
    op = "construct_career_urls" =>
        \A i \in 1..Len(cu_urls) :
            /\ Contains(cu_urls[i], Format(CAREER_PAGE_PATTERNS[i], clean_name(cu_company)))
            /\ ~Contains(cu_urls[i], <<",">>)
            /\ Count(cu_urls[i], <<".">>) = Count(Format(CAREER_PAGE_PATTERNS[i], <<>>), <<".">>)

\* What the pattern-testing loop of the agent did so far, call by call
AgentProbes ==
    LET probes == SelectSeq(ag_events, LAMBDA e : e.strategy = "patterns")
    IN  [i \in 1..Len(probes) |-> probes[i].ev]

\* No request follows a request directly
Spaced(calls) ==
    \A i \in 1..(Len(calls) - 1) : ~(calls[i] = "request" /\ calls[i + 1] = "request")

\* C24: between two successive probes of candidate URLs there is a sleep, in
\* test_career_urls of the agent and in _direct_url_construction alike
C24_SleepBetweenProbes == Spaced(AgentProbes) /\ Spaced(fc_probes)

\* The data the three steps give for a response: the response parsed as JSON;
\* failing that, its text from the first "{" to the last "}" parsed as JSON;
\* failing that, what _extract_basic_info reads in the raw listing
ChainData(response, raw_listing) ==
    IF JsonLoads(response).ok THEN JsonLoads(response).value
    ELSE IF BraceMatch(response) # None /\ JsonLoads(BraceMatch(response)).ok
    THEN JsonLoads(BraceMatch(response)).value
    ELSE _extract_basic_info(raw_listing)

\* The keys the claim names
CHAIN_KEYS == {"title", "location", "description", "requirements", "experience_level"}

\* C25: for every response of the model, the structured listing is made from
\* the data of the first step that succeeds, and it has a title, a location, a
\* description, requirements and an experience level
C25_FallbackChain ==
    \A k \in 1..Len(CallsOf("_process_listings")) :
        LET call == CallsOf("_process_listings")[k]
        IN  (k <= Len(structured_listings) /\ call.raised = "") =>
                /\ CHAIN_KEYS \subseteq structured_listings[k].keys
                /\ \A key \in CHAIN_KEYS \ {"title"} :
                       LET data == ChainData(call.text, raw_listings[call.listing])
                       IN  key \in data.keys => structured_listings[k][key] = data[key]

\* url is the text of an absolute URL
Absolute(url) == StartsWithAny(url, << <<"h", "t", "t", "p", ":", "/", "/">>, <<"h", "t", "t", "p", "s", ":", "/", "/">> >>)

\* C26: the url of a listing is None or an absolute URL: of the raw listings
\* of extract_jobs and the listings it returns, and of the jobs
\* _basic_job_extraction makes
C26_NoRelativeUrl ==
    /\ \A i \in DOMAIN raw_listings : raw_listings[i].url = None \/ Absolute(raw_listings[i].url)
    /\ \A i \in DOMAIN ex_result.jobs :
           ex_result.jobs[i].url = None \/ Absolute(ex_result.jobs[i].url)
    /\ op = "_basic_job_extraction" => Absolute(bj_url)

\* The running search_jobs call asked the model for the listings of the page
AskedForJobs ==
    \E i \in DOMAIN ag_events :
        ag_events[i].ev = "generate_text" /\ ag_events[i].strategy = "job_extractor"

\* C27: whatever the model answers, extract_jobs_from_html returns a list of
\* listing records, and search_jobs, which sorts and truncates it, returns
C27_AlwaysAList ==
    AskedForJobs =>
        /\ ag_jobs.type = "list"
        /\ \A i \in DOMAIN ag_jobs.items : ag_jobs.items[i].type = "dict"
        /\ ag_result.outcome = "returned"

\* C28: a turn of the filter's loop that keeps its listing without a call of
\* query_model found a keyword that is not empty in the listing's text
C28_NoEmptyKeywordMatch ==
    [][(/\ FilterTurn
        /\ ex_calls' = ex_calls
        /\ filtered_listings' = Append(filtered_listings, structured_listings[ex_i]))
       => \E i \in DOMAIN Split(ex_args.keywords, ",") :
              /\ Strip(Split(ex_args.keywords, ",")[i]) # <<>>
              /\ Contains(listing_text(structured_listings[ex_i]),
                          Lower(Strip(Split(ex_args.keywords, ",")[i])))]_vars

Failed(i) == fc_trail[i].url = None \/ ~fc_trail[i].valid

\* C30: find_career_page runs its methods in order and goes on to the next
\* after a method gave a URL that failed the validation; it returns None only
\* after every method gave nothing or a URL that failed the validation, and
\* returns earlier only a URL that passed it
C30_InvalidUrlContinues ==
    /\ \A i \in DOMAIN fc_trail : fc_trail[i].method = METHODS[i]
    /\ op = "find_career_page" => fc_method = Len(fc_trail) + 1 /\ fc_method <= Len(METHODS)
    /\ op = "find_career_page returned" =>
           IF fc_result = None
           THEN Len(fc_trail) = Len(METHODS) /\ \A i \in DOMAIN fc_trail : Failed(i)
           ELSE /\ ~Failed(Len(fc_trail))
                /\ fc_result = Last(fc_trail).url
                /\ \A i \in 1..(Len(fc_trail) - 1) : Failed(i)
    /\ op # "find_career_page raised"

\* The web search gave a URL that failed the validation, the two other methods
\* ran after it, and None was returned
C30_Witness ==
    /\ op = "find_career_page returned"
    /\ Len(fc_trail) = Len(METHODS)
    /\ fc_trail[1].url # None
    /\ ~fc_trail[1].valid
    /\ fc_result = None
====
